---- MODULE Spec2Model ----
(***************************************************************************)
(* Subset-sum manager (src/src/subset_sum_manager.c) and branch-and-bound  *)
(* backtracking search (src/unnamed/part_002, src/src/backtrack_solver.c)  *)
(* of the Erdos distinct-subset-sums solver.                               *)
(*                                                                         *)
(* The specifications share the variables:                                 *)
(*   SpecMgr  - a client drives one manager with arbitrary try_push / pop  *)
(*              calls (subset_sum_manager_add_element / _remove_last);     *)
(*   Spec     - one run of backtrack_solver_solve / _solve_all, one action *)
(*              per step of the recursive procedure backtrack, with the    *)
(*              caller setting the stop flag at any moment, also between   *)
(*              a read of the flag and the statement that follows it;      *)
(*   SpecN5   - the same run for n = 5 with the default bound;             *)
(*   SpecCb   - callback registrations and the progress clock of a run;    *)
(*   SpecSig  - signal_handler of src/src/main.c and log_message of        *)
(*              src/unnamed/part_004 on the threads of the process;        *)
(*   SpecPool - run_range of src/src/main.c: the main thread's polling     *)
(*              loop, the worker threads it starts and the database        *)
(*              manager of src/src/db_manager.c they share.                *)
(***************************************************************************)
EXTENDS Integers, Sequences, FiniteSets, TLC

VARIABLES
    manager,     \* SubsetSumManager: type, elements, sums_set, history
    op,          \* the last manager call: name, argument, result, manager before it
    snaps,       \* observer: the manager before each push that is still on E
    solver,      \* BacktrackSolver: config, best_max, best_solution, has_solution,
                 \*   all_optimal_solutions (entries 0 .. optimal_count-1), stats,
                 \*   solution_callback (registered or NULL) and the calls made to it
    stop_flag,   \* *config.stop_flag, owned by the caller
    stack,       \* activation records of backtrack: depth, min_next, candidate, pc
                 \*   (entry, count, loop, try, called)
    pc,          \* position in backtrack_solver_solve
    result,      \* the SolutionResult filled by backtrack_solver_solve
    aborted,     \* observer: an activation of backtrack returned on the stop flag
    completions, \* observer: one entry per complete set reached at depth = n
    since_stop,  \* observer: what the search did after the stop flag was set
    pool,        \* run_range: its arguments, current_n, active_workers, position
    workers,     \* the Worker slots: task.n, completed, thread
    threads,     \* the worker threads created so far: slot, task.n, position, result
    db,          \* g_db_manager (mutex, tables results and optimal_sets), g_result_mutex
    logger,      \* g_log_mutex: the thread that holds it
    sig          \* per thread: its place in log_message and its running signal handlers

poolVars == <<pool, workers, threads, db>>

sigVars == <<logger, sig>>

vars == <<manager, op, snaps, solver, stop_flag, stack, pc, result, aborted,
          completions, since_stop, poolVars, sigVars>>

solverVars == <<solver, stop_flag, stack, pc, result, aborted, completions, since_stop>>

----------------------------------------------------------------------------
(* Bounds of the model *)

MaxVal == 6        \* values handed to try_push by the manager's client: 0 .. MaxVal
MaxElems == 4      \* the client holds at most this many elements
MaxN == 4          \* the search is run for n in 1 .. MaxN
MaxElapsed == 1    \* seconds that pass between two readings of the clock: 0 .. MaxElapsed
WindowLen == 4     \* nodes observed in a window of the run
SigThreads == 2    \* threads of the process that log and receive signals
MaxB == 6          \* configured initial_bound in 0 .. MaxB (0 = default bound)
MaskLimit == 2     \* has_collision_iterative enumerates pairs of masks only while
                   \* n <= 62 (bits of the uint64_t mask); the model scales the 62
                   \* down to MaskLimit so that a manager can grow past the limit

----------------------------------------------------------------------------
(* Arithmetic helpers *)

\* ERDOS_LOG_INTERVAL_SEC, the log interval worker_thread configures
ERDOS_LOG_INTERVAL_SEC == 60

RECURSIVE Pow2(_)
Pow2(k) == IF k = 0 THEN 1 ELSE 2 * Pow2(k - 1)

\* a & b on unsigned integers, bit by bit
RECURSIVE BitAnd(_, _)
BitAnd(a, b) ==
    IF a = 0 \/ b = 0 THEN 0
    ELSE (IF a % 2 = 1 /\ b % 2 = 1 THEN 1 ELSE 0) + 2 * BitAnd(a \div 2, b \div 2)

RECURSIVE SumOver(_, _)
\* sum of the elements of sequence e at the index set T (one bitmask of the code)
SumOver(e, T) ==
    IF T = {} THEN 0
    ELSE LET i == CHOOSE j \in T : TRUE IN e[i] + SumOver(e, T \ {i})

\* mutant: the first element is taken for the largest
SeqMax_First(e) == IF e = <<>> THEN 0 ELSE Head(e)

RECURSIVE SeqMax(_)
\* "current_max = 0; for each elem: if (elem > current_max) current_max = elem"
SeqMax(e) ==
    IF e = <<>> THEN 0
    ELSE LET m == SeqMax(Tail(e)) IN IF Head(e) > m THEN Head(e) ELSE m

RECURSIVE SetToSeq(_)
\* the traversal of the hash table that fills current_sums; the bucket order is
\* abstracted to ascending order (no modelled operation depends on the order)
SetToSeq(S) ==
    IF S = {} THEN <<>>
    ELSE LET x == CHOOSE y \in S : \A z \in S : y <= z
         IN <<x>> \o SetToSeq(S \ {x})

Range(s) == {s[i] : i \in 1..Len(s)}

SetMax(T) == IF T = {} THEN 0 ELSE CHOOSE x \in T : \A y \in T : y <= x

----------------------------------------------------------------------------
(* MpzHashSet: the set of stored values; buckets, chains and the node pool *)
(* are abstracted to the set they represent (size = Cardinality).          *)

mpz_hashset_contains(set, value) == value \in set

\* "if (contains) return false;" else link a node and size++
mpz_hashset_add(set, value) ==
    IF mpz_hashset_contains(set, value) THEN set ELSE set \cup {value}

\* mutant: the node is found but never unlinked
mpz_hashset_remove_NoUnlink(set, value) == set

\* unlink the node holding value, if any, and size--
mpz_hashset_remove(set, value) == set \ {value}

----------------------------------------------------------------------------
(* SumsHistory / HistoryStack: frames 1 .. count; storage beyond count is  *)
(* scratch memory and not part of the state.                               *)

\* mutant: the new sum goes into the set but is not recorded in the frame
sums_history_add_NotRecorded(frame, value) == frame

sums_history_add(frame, value) == Append(frame, value)

\* entries[count].count = 0; return &entries[count++]
history_stack_push(h) == Append(h, <<>>)

\* if (count == 0) return NULL; return &entries[--count]
history_stack_pop(h) == IF Len(h) = 0 THEN h ELSE SubSeq(h, 1, Len(h) - 1)

mpz_set_push(e, value) == Append(e, value)

mpz_set_pop(e) == IF Len(e) > 0 THEN SubSeq(e, 1, Len(e) - 1) ELSE e

----------------------------------------------------------------------------
(* SubsetSumManager *)

subset_sum_manager_create(type) ==
    [type |-> type, elements |-> <<>>, sums_set |-> {}, history |-> <<>>]

RECURSIVE AddNewSums(_, _, _, _)
\* second loop of compute_and_add_sums_fast: for each current sum s,
\* add value + s to the set and record it in the history frame
AddNewSums(S, F, value, cur) ==
    IF cur = <<>> THEN [S |-> S, F |-> F]
    ELSE LET t == value + Head(cur)
         IN AddNewSums(mpz_hashset_add(S, t), sums_history_add(F, t), value, Tail(cur))

\* mutant: only value itself is looked up; the loop over value + s is missing
compute_and_add_sums_fast_NoLoopCheck(m, value) ==
    IF mpz_hashset_contains(m.sums_set, value)
    THEN [ok |-> FALSE, m |-> m]
    ELSE LET current_sums == SetToSeq(m.sums_set)
             top == Len(m.history)
             r == AddNewSums(mpz_hashset_add(m.sums_set, value),
                             sums_history_add(m.history[top], value),
                             value, current_sums)
         IN [ok |-> TRUE,
             m  |-> [m EXCEPT !.sums_set = r.S, !.history[top] = r.F]]

\* m is the manager after history_stack_push: its top frame is new_sums_history
compute_and_add_sums_fast(m, value) ==
    IF mpz_hashset_contains(m.sums_set, value)
    THEN [ok |-> FALSE, m |-> m]
    ELSE LET current_sums == SetToSeq(m.sums_set)
             top == Len(m.history)
         IN IF \E i \in 1..Len(current_sums) :
                    mpz_hashset_contains(m.sums_set, value + current_sums[i])
            THEN [ok |-> FALSE, m |-> m]
            ELSE LET r == AddNewSums(mpz_hashset_add(m.sums_set, value),
                                     sums_history_add(m.history[top], value),
                                     value, current_sums)
                 IN [ok |-> TRUE,
                     m  |-> [m EXCEPT !.sums_set = r.S, !.history[top] = r.F]]

\* mutant: only the first test (a subset of E sums to new_value) is made
subset_sum_manager_has_collision_iterative_TestAOnly(m, new_value) ==
    /\ Len(m.elements) > 0
    /\ \E mask \in SUBSET (1..Len(m.elements)) \ {{}} :
           SumOver(m.elements, mask) = new_value

\* TRUE iff a collision is found
subset_sum_manager_has_collision_iterative(m, new_value) ==
    LET n == Len(m.elements)
        e == m.elements
        masks == SUBSET (1..n) \ {{}}
    IN IF n = 0 THEN FALSE
       ELSE IF n <= MaskLimit
       THEN \/ \E mask \in masks : SumOver(e, mask) = new_value
            \/ \E mask1 \in masks : \E mask2 \in masks :
                   /\ mask1 \cap mask2 = {}
                   /\ new_value + SumOver(e, mask1) = SumOver(e, mask2)
       ELSE \E mask \in masks : SumOver(e, mask) = new_value

\* mutant: on a collision the frame opened by history_stack_push is left on the stack
subset_sum_manager_add_element_NoRollback(m, value) ==
    IF m.type = "FAST"
    THEN LET pushed == [m EXCEPT !.history = history_stack_push(m.history)]
             r == compute_and_add_sums_fast(pushed, value)
         IN IF ~r.ok
            THEN [ok |-> FALSE, m |-> r.m]
            ELSE [ok |-> TRUE,
                  m  |-> [r.m EXCEPT !.elements = mpz_set_push(r.m.elements, value)]]
    ELSE IF subset_sum_manager_has_collision_iterative(m, value)
         THEN [ok |-> FALSE, m |-> m]
         ELSE [ok |-> TRUE, m |-> [m EXCEPT !.elements = mpz_set_push(m.elements, value)]]

subset_sum_manager_add_element(m, value) ==
    IF m.type = "FAST"
    THEN LET pushed == [m EXCEPT !.history = history_stack_push(m.history)]
             r == compute_and_add_sums_fast(pushed, value)
         IN IF ~r.ok
            THEN [ok |-> FALSE,
                  m  |-> [r.m EXCEPT !.history = history_stack_pop(r.m.history)]]
            ELSE [ok |-> TRUE,
                  m  |-> [r.m EXCEPT !.elements = mpz_set_push(r.m.elements, value)]]
    ELSE IF subset_sum_manager_has_collision_iterative(m, value)
         THEN [ok |-> FALSE, m |-> m]
         ELSE [ok |-> TRUE, m |-> [m EXCEPT !.elements = mpz_set_push(m.elements, value)]]

\* mutant: only the first recorded sum of the frame is removed
RemoveSums_FirstOnly(S, F) ==
    IF F = <<>> THEN S ELSE mpz_hashset_remove(S, Head(F))

RECURSIVE RemoveSums(_, _)
\* for (i < history->count) mpz_hashset_remove(sums_set, history->sums[i])
RemoveSums(S, F) ==
    IF F = <<>> THEN S ELSE RemoveSums(mpz_hashset_remove(S, Head(F)), Tail(F))

\* mutant: the sums are rolled back but the element stays on E
subset_sum_manager_remove_last_KeepElement(m) ==
    IF Len(m.elements) = 0 THEN m
    ELSE IF m.type = "FAST" /\ Len(m.history) > 0
         THEN [m EXCEPT
                 !.sums_set = RemoveSums(m.sums_set, m.history[Len(m.history)]),
                 !.history = history_stack_pop(m.history)]
         ELSE m

\* mutant: the emptiness test is missing, the element count underflows and E reads
\* one stale element (rendered as 0)
subset_sum_manager_remove_last_NoEmptyTest(m) ==
    IF Len(m.elements) = 0 THEN [m EXCEPT !.elements = <<0>>]
    ELSE LET undone ==
                 IF m.type = "FAST"
                 THEN IF Len(m.history) = 0 THEN m
                      ELSE [m EXCEPT
                              !.sums_set = RemoveSums(m.sums_set, m.history[Len(m.history)]),
                              !.history = history_stack_pop(m.history)]
                 ELSE m
         IN [undone EXCEPT !.elements = mpz_set_pop(undone.elements)]

subset_sum_manager_remove_last(m) ==
    IF Len(m.elements) = 0 THEN m
    ELSE LET undone ==
                 IF m.type = "FAST"
                 THEN IF Len(m.history) = 0 THEN m
                      ELSE [m EXCEPT
                              !.sums_set = RemoveSums(m.sums_set, m.history[Len(m.history)]),
                              !.history = history_stack_pop(m.history)]
                 ELSE m
         IN [undone EXCEPT !.elements = mpz_set_pop(undone.elements)]

----------------------------------------------------------------------------
(* State after construction *)

NoOp == [name |-> "none", arg |-> 0, ret |-> FALSE,
         pre |-> subset_sum_manager_create("FAST"),
         snap |-> subset_sum_manager_create("FAST"),
         between |-> FALSE]

\* a buffer on the heap: the kind of the buffer, and for the NumberSet buffers
\* of the optimal-solutions array the index of their slot
Buffer(kind) == [kind |-> kind, slot |-> 0]
SlotBuffer(i) == [kind |-> "optimal_slot", slot |-> i]

\* what subset_sum_manager_create allocates: the manager with its element set,
\* the sum set with its buckets and node pool, and the history stack
ManagerBuffers ==
    {Buffer("manager"), Buffer("elements"), Buffer("sums_set"), Buffer("node_pool"),
     Buffer("history")}

\* backtrack_solver_create: the solver before any solve
backtrack_solver_create(cfg) ==
    [config |-> cfg,
     optimal_capacity |-> 0,
     heap |-> {Buffer("solver"), Buffer("best_solution")} \cup ManagerBuffers,
                                         \* the buffers allocated and not yet freed
     best_max |-> 0,
     best_solution |-> <<>>,
     has_solution |-> FALSE,
     all_optimal_solutions |-> <<>>,
     solution_callback |-> FALSE,        \* NULL
     progress_callback |-> FALSE,        \* NULL
     callback_user_data |-> "NULL",      \* the one user_data field of both callbacks
     callback_calls |-> <<>>,            \* observer: the calls of solution_callback
     progress_calls |-> <<>>,            \* observer: the calls of progress_callback
     registered |-> [solution |-> "NULL", progress |-> "NULL"],
                                         \* observer: the user_data each callback
                                         \* was registered with
     time_read |-> 0,                    \* observer: what time(NULL) last returned
     stats |-> [nodes_explored |-> 0, current_depth |-> 0, best_max |-> 0,
                solutions_found |-> 0, last_log_time |-> 0]]

\* solution_result_init
solution_result_init ==
    [n |-> 0, max_value |-> 0, solution_set |-> <<>>, status |-> "NO_SOLUTION",
     nodes_explored |-> 0]

IdleConfig == [n |-> 0, initial_bound |-> 0, find_all_optimal |-> FALSE,
               first_only |-> FALSE, log_interval_sec |-> 0]

\* the owner of a pthread mutex: nobody, the main thread, or worker thread t
Nobody == [kind |-> "nobody", id |-> 0]
MainThread == [kind |-> "main", id |-> 0]
WorkerThread(t) == [kind |-> "worker", id |-> t]

\* no signal is being handled and nobody is inside log_message
NoSignals ==
    /\ logger = [mutex |-> Nobody]
    /\ sig = <<>>

\* no run_range is in progress: no worker slots, no threads, no database
NoPool ==
    /\ pool = [pc |-> "none"]
    /\ workers = <<>>
    /\ threads = <<>>
    /\ db = [open |-> FALSE, prepare_ok |-> FALSE, mutex |-> Nobody,
             result_mutex |-> Nobody, results |-> {}, optimal_sets |-> {}]

----------------------------------------------------------------------------
(* SpecMgr: a client calls try_push and pop on one manager *)

\* the value argument is an integer of the caller's choice (mpz_t; value_t in the
\* 64-bit build): nothing in add_element rejects 0
Values == 0..MaxVal

InitMgr ==
    /\ \E t \in {"FAST", "ITERATIVE"} : manager = subset_sum_manager_create(t)
    /\ op = NoOp
    /\ snaps = <<>>
    /\ solver = backtrack_solver_create(IdleConfig)
    /\ stop_flag = FALSE
    /\ stack = <<>>
    /\ pc = "idle"
    /\ result = solution_result_init
    /\ aborted = FALSE
    /\ completions = <<>>
    /\ since_stop = [set |-> FALSE, held |-> 0, nodes |-> 0, pushes |-> 0,
                     pushed |-> 0, pops |-> 0]
    /\ NoPool
    /\ NoSignals

\* observer: every call made while a push is still on E happens "in between"
\* that push and its matching pop
Touched(sn) == [i \in 1..Len(sn) |-> [sn[i] EXCEPT !.between = TRUE]]

\* try_push(v): subset_sum_manager_add_element
TryPush(v) ==
    /\ pc = "idle"
    /\ Len(manager.elements) < MaxElems
    /\ LET r == subset_sum_manager_add_element(manager, v)
       IN /\ manager' = r.m
          /\ op' = [name |-> "push", arg |-> v, ret |-> r.ok, pre |-> manager,
                    snap |-> manager, between |-> FALSE]
          /\ snaps' = IF r.ok
                      THEN Append(Touched(snaps), [m |-> manager, between |-> FALSE])
                      ELSE Touched(snaps)
    /\ UNCHANGED <<solverVars, poolVars, sigVars>>

\* pop(): subset_sum_manager_remove_last
Pop ==
    /\ pc = "idle"
    /\ manager' = subset_sum_manager_remove_last(manager)
    /\ op' = [name |-> "pop", arg |-> 0, ret |-> Len(manager.elements) > 0,
              pre |-> manager,
              snap |-> IF Len(snaps) > 0 THEN snaps[Len(snaps)].m ELSE manager,
              between |-> IF Len(snaps) > 0 THEN snaps[Len(snaps)].between ELSE FALSE]
    /\ snaps' = IF Len(snaps) > 0
                THEN Touched(SubSeq(snaps, 1, Len(snaps) - 1))
                ELSE snaps
    /\ UNCHANGED <<solverVars, poolVars, sigVars>>

NextMgr ==
    \/ \E v \in Values : TryPush(v)
    \/ Pop

SpecMgr == InitMgr /\ [][NextMgr]_vars

----------------------------------------------------------------------------
(* The search: backtrack_solver_solve / backtrack_solver_solve_all *)

\* mutant: the "+ 1" is dropped
compute_initial_bound_NoPlusOne(n) == IF n = 0 THEN 1 ELSE Pow2(n - 1)

\* 2^(n-1) + 1, and 1 for n = 0
compute_initial_bound(n) == IF n = 0 THEN 1 ELSE Pow2(n - 1) + 1

\* backtrack_solver_set_solution_callback: the callback and the user_data field
SetSolutionCallback(s, callback, user_data) ==
    [s EXCEPT !.solution_callback = callback, !.callback_user_data = user_data,
              !.registered.solution = user_data]

\* backtrack_solver_set_progress_callback: the callback and the same user_data field
SetProgressCallback(s, callback, user_data) ==
    [s EXCEPT !.progress_callback = callback, !.callback_user_data = user_data,
              !.registered.progress = user_data]

\* mutant: the registered callback is never called
InvokeSolutionCallback_Never(s) == s

\* "if (solver->solution_callback) solver->solution_callback(n, best_max, &best_solution, ..)"
InvokeSolutionCallback(s) ==
    IF s.solution_callback
    THEN [s EXCEPT !.callback_calls =
              Append(@, [n |-> s.config.n, max_value |-> s.best_max,
                         set |-> s.best_solution,
                         user_data |-> s.callback_user_data])]
    ELSE s

\* mutant: best_max is taken from the manager but the elements are not copied
save_best_solution_NoCopy(s, m) ==
    InvokeSolutionCallback(
        [s EXCEPT !.best_max = SeqMax(m.elements),
                  !.has_solution = TRUE,
                  !.stats.best_max = SeqMax(m.elements),
                  !.stats.solutions_found = @ + 1])

\* copies the manager's elements into best_solution, recomputes best_max,
\* then calls the solution callback
save_best_solution(s, m) ==
    InvokeSolutionCallback(
        [s EXCEPT !.best_solution = m.elements,
                  !.best_max = SeqMax(m.elements),
                  !.has_solution = TRUE,
                  !.stats.best_max = SeqMax(m.elements),
                  !.stats.solutions_found = @ + 1])

\* add_optimal_solution: a full array grows to 16 slots, then doubles, and
\* number_set_init allocates a buffer for every new slot; then
\* all_optimal_solutions[optimal_count++] = copy of the manager's elements
add_optimal_solution(s, m) ==
    LET grow == Len(s.all_optimal_solutions) >= s.optimal_capacity
        new_capacity == IF s.optimal_capacity = 0 THEN 16 ELSE s.optimal_capacity * 2
    IN [s EXCEPT !.all_optimal_solutions = Append(@, m.elements),
                 !.optimal_capacity = IF grow THEN new_capacity ELSE @,
                 !.heap = IF grow
                          THEN @ \cup {Buffer("optimal_array")}
                                 \cup {SlotBuffer(i) :
                                           i \in s.optimal_capacity..(new_capacity - 1)}
                          ELSE @]

\* subset_sum_manager_destroy: the element set, the sum set with every node of
\* its buckets and pool, the history stack and the manager are freed
subset_sum_manager_destroy(heap) == heap \ ManagerBuffers

\* backtrack_solver_destroy: the manager, the best-solution buffer, the slots
\* 0 .. optimal_count - 1 of the array, the array (if any) and the solver
DestroySolver(s) ==
    [s EXCEPT !.heap =
        ((subset_sum_manager_destroy(@) \ {Buffer("best_solution")})
            \ {SlotBuffer(i) : i \in 0..(Len(s.all_optimal_solutions) - 1)})
            \ {Buffer("optimal_array"), Buffer("solver")}]

\* mutant: on a strict improvement the list of optimal sets is not cleared
BaseCase_NoClear(s, m) ==
    LET current_max == SeqMax(m.elements)
    IN IF ~s.config.find_all_optimal
       THEN IF current_max < s.best_max THEN save_best_solution(s, m) ELSE s
       ELSE IF ~s.has_solution \/ current_max < s.best_max
            THEN add_optimal_solution(save_best_solution(s, m), m)
            ELSE IF current_max = s.best_max
                 THEN [add_optimal_solution(s, m) EXCEPT !.stats.solutions_found = @ + 1]
                 ELSE s

\* mutant: only the first complete set is ever recorded
BaseCase_FirstOnly(s, m) ==
    IF ~s.has_solution
    THEN IF s.config.find_all_optimal
         THEN add_optimal_solution(
                  save_best_solution([s EXCEPT !.all_optimal_solutions = <<>>], m), m)
         ELSE save_best_solution(s, m)
    ELSE s

\* "if (depth == n) { ... return; }" of backtrack: a complete set is on E
BaseCase(s, m) ==
    LET current_max == SeqMax(m.elements)
    IN IF ~s.config.find_all_optimal
       THEN IF current_max < s.best_max THEN save_best_solution(s, m) ELSE s
       ELSE IF ~s.has_solution \/ current_max < s.best_max
            THEN add_optimal_solution(
                     save_best_solution([s EXCEPT !.all_optimal_solutions = <<>>], m), m)
            ELSE IF current_max = s.best_max
                 THEN [add_optimal_solution(s, m) EXCEPT !.stats.solutions_found = @ + 1]
                 ELSE s

\* mutant: the two assignments are crossed
CountNode_Crossed(s, depth) ==
    [s EXCEPT !.stats.nodes_explored = depth, !.stats.current_depth = @ + 1]

\* nodes_explored++; current_depth = depth
CountNode(s, depth) ==
    [s EXCEPT !.stats.nodes_explored = @ + 1, !.stats.current_depth = depth]

\* the values time(NULL) can return at a node: the last logged time or later
TimeNow(s) == s.stats.last_log_time .. s.stats.last_log_time + MaxElapsed

\* check_progress: once log_interval_sec has passed since the last log, the
\* time is noted, the progress is logged and a registered callback is called
check_progress(s, now) ==
    IF now - s.stats.last_log_time >= s.config.log_interval_sec
    THEN [s EXCEPT !.time_read = now,
                   !.stats.last_log_time = now,
                   !.progress_calls =
                       IF s.progress_callback
                       THEN Append(@, [nodes |-> s.stats.nodes_explored,
                                       user_data |-> s.callback_user_data])
                       ELSE @]
    ELSE [s EXCEPT !.time_read = now]

\* mutant: every node is checked
ProgressGate_EveryNode(s, now) == check_progress(s, now)

\* "check_mask = nodes_explored > 100000 ? 0xFFFF : 0x3FF;
\*  if ((nodes_explored & check_mask) == 0) check_progress(solver)"
ProgressGate(s, now) ==
    LET check_mask == IF s.stats.nodes_explored > 100000 THEN 65535 ELSE 1023
    IN IF BitAnd(s.stats.nodes_explored, check_mask) = 0
       THEN check_progress(s, now)
       ELSE s

\* mutant: the element about to be tried is counted as remaining
Remaining_CountsCandidate(s, depth) == s.config.n - depth

\* remaining = n - depth - 1
Remaining(s, depth) == s.config.n - depth - 1

\* prune P1: has_solution && min_next + remaining >= best_max
PruneP1(s, depth, min_next) ==
    s.has_solution /\ min_next + Remaining(s, depth) >= s.best_max

\* mutant: the loop goes on while the candidate is at most best_max
LoopBreak_AllowsEqual(s, depth, candidate) ==
    \/ IF s.has_solution THEN candidate > s.best_max
                         ELSE candidate >= s.config.initial_bound
    \/ s.has_solution /\ candidate + Remaining(s, depth) > s.best_max

\* mutant: prune P2 counts one remaining element too many
LoopBreak_OffByOne(s, depth, candidate) ==
    \/ IF s.has_solution THEN candidate >= s.best_max
                         ELSE candidate >= s.config.initial_bound
    \/ s.has_solution /\ candidate + Remaining(s, depth) + 1 >= s.best_max

\* the two tests that break the candidate loop: the dynamic upper bound and prune P2
LoopBreak(s, depth, candidate) ==
    \/ IF s.has_solution THEN candidate >= s.best_max
                         ELSE candidate >= s.config.initial_bound
    \/ s.has_solution /\ candidate + Remaining(s, depth) >= s.best_max

Top == stack[Len(stack)]

\* the current activation returns: its record is popped; when the outermost
\* activation returns, control is back in backtrack_solver_solve
Return ==
    /\ stack' = SubSeq(stack, 1, Len(stack) - 1)
    /\ pc' = IF Len(stack) = 1 THEN "fill" ELSE pc

\* the activation record of backtrack(solver, depth, min_next); tried is an
\* observer: the candidates this activation has handed to try_push so far
Frame(depth, min_next) ==
    [depth |-> depth, min_next |-> min_next, candidate |-> min_next, pc |-> "entry",
     tried |-> <<>>]

\* observer: counts, once the stop flag is set, the nodes counted, the try_push
\* calls started, the successful ones among them, and the pops
NoStop == [set |-> FALSE, held |-> 0, nodes |-> 0, pushes |-> 0, pushed |-> 0,
           pops |-> 0]

Observed(field) ==
    IF stop_flag THEN [since_stop EXCEPT ![field] = @ + 1] ELSE since_stop

Configs ==
    [n : 1..MaxN, initial_bound : 0..MaxB, find_all_optimal : BOOLEAN,
     first_only : BOOLEAN, log_interval_sec : {ERDOS_LOG_INTERVAL_SEC}]

\* worker_thread configures MANAGER_TYPE_FAST for every n < 25
Init ==
    /\ manager = subset_sum_manager_create("FAST")
    /\ op = NoOp
    /\ snaps = <<>>
    /\ \E cfg \in Configs : solver = backtrack_solver_create(cfg)
    /\ stop_flag = FALSE
    /\ stack = <<>>
    /\ pc = "created"
    /\ result = solution_result_init
    /\ aborted = FALSE
    /\ completions = <<>>
    /\ since_stop = NoStop
    /\ NoPool
    /\ NoSignals

\* the client registers a solution callback before the search
backtrack_solver_set_solution_callback ==
    /\ pc = "created"
    /\ ~solver.solution_callback
    /\ solver' = SetSolutionCallback(solver, TRUE, "solution_data")
    /\ UNCHANGED <<sigVars, poolVars, manager, op, snaps, stop_flag, stack, pc, result, aborted,
                   completions, since_stop>>

\* backtrack_solver_solve up to log_start: statistics reset, default bound,
\* best_max = initial_bound
SolveInit(s0) ==
    LET b == IF s0.config.initial_bound = 0
             THEN compute_initial_bound(s0.config.n)
             ELSE s0.config.initial_bound
    IN [s0 EXCEPT !.has_solution = FALSE,
                  !.stats.nodes_explored = 0,
                  !.stats.solutions_found = 0,
                  !.stats.current_depth = 0,
                  !.stats.last_log_time = 0,   \* time is counted from start_time
                  !.time_read = 0,
                  !.config.initial_bound = b,
                  !.best_max = b,
                  !.stats.best_max = b]

\* worker_thread calls backtrack_solver_solve when find_all_optimal is off
backtrack_solver_solve ==
    /\ pc = "created"
    /\ ~solver.config.find_all_optimal
    /\ solver' = SolveInit(solver)
    /\ pc' = "started"
    /\ UNCHANGED <<sigVars, poolVars, manager, op, snaps, stop_flag, stack, result, aborted,
                   completions, since_stop>>

\* and backtrack_solver_solve_all when it is on
backtrack_solver_solve_all ==
    /\ pc = "created"
    /\ solver.config.find_all_optimal
    /\ solver' = SolveInit([solver EXCEPT !.config.find_all_optimal = TRUE,
                                          !.all_optimal_solutions = <<>>])
    /\ pc' = "started"
    /\ UNCHANGED <<sigVars, poolVars, manager, op, snaps, stop_flag, stack, result, aborted,
                   completions, since_stop>>

\* mutant: no special case, N = 1 is searched like any other N
SolveSearch_NoSpecialCase ==
    /\ pc = "started"
    /\ stack' = <<Frame(0, 1)>>
    /\ pc' = "backtrack"
    /\ UNCHANGED <<sigVars, poolVars, manager, op, snaps, solver, stop_flag, result, aborted,
                   completions, since_stop>>

\* mutant: the top-level call is backtrack(solver, 0, 0)
SolveSearch_FromZero ==
    /\ pc = "started"
    /\ IF solver.config.n = 1
       THEN /\ solver' = [solver EXCEPT !.best_max = 1, !.best_solution = <<1>>,
                                        !.has_solution = TRUE]
            /\ stack' = <<>>
            /\ pc' = "fill"
       ELSE /\ solver' = solver
            /\ stack' = <<Frame(0, 0)>>
            /\ pc' = "backtrack"
    /\ UNCHANGED <<sigVars, poolVars, manager, op, snaps, stop_flag, result, aborted,
                   completions, since_stop>>

\* backtrack_solver_solve: the N = 1 special case, or the call backtrack(solver, 0, 1)
SolveSearch ==
    /\ pc = "started"
    /\ IF solver.config.n = 1
       THEN /\ solver' = [solver EXCEPT !.best_max = 1, !.best_solution = <<1>>,
                                        !.has_solution = TRUE]
            /\ stack' = <<>>
            /\ pc' = "fill"
       ELSE /\ solver' = solver
            /\ stack' = <<Frame(0, 1)>>
            /\ pc' = "backtrack"
    /\ UNCHANGED <<sigVars, poolVars, manager, op, snaps, stop_flag, result, aborted,
                   completions, since_stop>>

\* mutant: the search acknowledges the stop request by clearing the flag
BtStopAtEntry_ClearsFlag ==
    /\ pc = "backtrack" /\ Top.pc = "entry"
    /\ stop_flag
    /\ Return
    /\ aborted' = TRUE
    /\ stop_flag' = FALSE
    /\ UNCHANGED <<sigVars, poolVars, manager, op, snaps, solver, result, completions, since_stop>>

\* backtrack, top of the level: "if (stop_flag && *stop_flag) return;"
BtStopAtEntry ==
    /\ pc = "backtrack" /\ Top.pc = "entry"
    /\ stop_flag
    /\ Return
    /\ aborted' = TRUE
    /\ UNCHANGED <<sigVars, poolVars, manager, op, snaps, solver, stop_flag, result, completions,
                   since_stop>>

\* backtrack, top of the level: the flag was read as unset, the activation goes on
BtEntryPass ==
    /\ pc = "backtrack" /\ Top.pc = "entry"
    /\ ~stop_flag
    /\ stack' = [stack EXCEPT ![Len(stack)].pc = "count"]
    /\ UNCHANGED <<sigVars, poolVars, manager, op, snaps, solver, stop_flag, pc, result, aborted,
                   completions, since_stop>>

\* backtrack at depth = n: count the node, record the completion, return
BtBaseCase ==
    /\ pc = "backtrack" /\ Top.pc = "count"
    /\ Top.depth = solver.config.n
    /\ \E now \in TimeNow(solver) :
           solver' = BaseCase(ProgressGate(CountNode(solver, Top.depth), now), manager)
    /\ completions' = Append(completions,
                             [max |-> SetMax(Range(manager.elements)),
                              best |-> solver.best_max,
                              had |-> solver.has_solution,
                              set |-> manager.elements,
                              nodes |-> solver.stats.nodes_explored + 1])
    /\ since_stop' = Observed("nodes")
    /\ Return
    /\ UNCHANGED <<sigVars, poolVars, manager, op, snaps, stop_flag, result, aborted>>

\* backtrack below depth n: count the node; prune P1 returns, otherwise
\* candidate = min_next and the candidate loop is entered
BtEnter ==
    /\ pc = "backtrack" /\ Top.pc = "count"
    /\ Top.depth # solver.config.n
    /\ \E now \in TimeNow(solver) :
           solver' = ProgressGate(CountNode(solver, Top.depth), now)
    /\ since_stop' = Observed("nodes")
    /\ IF PruneP1(solver, Top.depth, Top.min_next)
       THEN Return
       ELSE /\ stack' = [stack EXCEPT ![Len(stack)].candidate = Top.min_next,
                                      ![Len(stack)].pc = "loop"]
            /\ pc' = pc
    /\ UNCHANGED <<sigVars, poolVars, manager, op, snaps, stop_flag, result, aborted, completions>>

\* mutant: the candidate loop does not look at the stop flag
BtStopInLoop_Ignored ==
    /\ pc = "backtrack" /\ Top.pc = "loop"
    /\ stop_flag
    /\ stack' = [stack EXCEPT ![Len(stack)].pc = "try"]
    /\ UNCHANGED <<sigVars, poolVars, manager, op, snaps, solver, stop_flag, pc, result, aborted,
                   completions, since_stop>>

\* candidate loop: "if (stop_flag && *stop_flag) return;"
BtStopInLoop ==
    /\ pc = "backtrack" /\ Top.pc = "loop"
    /\ stop_flag
    /\ Return
    /\ aborted' = TRUE
    /\ UNCHANGED <<sigVars, poolVars, manager, op, snaps, solver, stop_flag, result, completions,
                   since_stop>>

\* candidate loop: the flag was read as unset, the bound tests follow
BtLoopPass ==
    /\ pc = "backtrack" /\ Top.pc = "loop"
    /\ ~stop_flag
    /\ stack' = [stack EXCEPT ![Len(stack)].pc = "try"]
    /\ UNCHANGED <<sigVars, poolVars, manager, op, snaps, solver, stop_flag, pc, result, aborted,
                   completions, since_stop>>

\* candidate loop: a bound test breaks the loop and the activation returns
BtBreak ==
    /\ pc = "backtrack" /\ Top.pc = "try"
    /\ LoopBreak(solver, Top.depth, Top.candidate)
    /\ Return
    /\ UNCHANGED <<sigVars, poolVars, manager, op, snaps, solver, stop_flag, result, aborted,
                   completions, since_stop>>

\* candidate loop: try_push(candidate) succeeds, backtrack(depth+1, candidate+1)
BtPushOk ==
    /\ pc = "backtrack" /\ Top.pc = "try"
    /\ ~LoopBreak(solver, Top.depth, Top.candidate)
    /\ LET r == subset_sum_manager_add_element(manager, Top.candidate)
       IN /\ r.ok
          /\ manager' = r.m
          /\ op' = [name |-> "push", arg |-> Top.candidate, ret |-> TRUE,
                    pre |-> manager, snap |-> manager, between |-> FALSE]
    /\ stack' = Append([stack EXCEPT ![Len(stack)].pc = "called",
                                      ![Len(stack)].tried = Append(@, Top.candidate)],
                       Frame(Top.depth + 1, Top.candidate + 1))
    /\ since_stop' = IF stop_flag
                     THEN [since_stop EXCEPT !.pushes = @ + 1, !.pushed = @ + 1]
                     ELSE since_stop
    /\ UNCHANGED <<sigVars, poolVars, snaps, solver, stop_flag, pc, result, aborted, completions>>

\* candidate loop: try_push(candidate) fails, candidate++
BtPushFail ==
    /\ pc = "backtrack" /\ Top.pc = "try"
    /\ ~LoopBreak(solver, Top.depth, Top.candidate)
    /\ LET r == subset_sum_manager_add_element(manager, Top.candidate)
       IN /\ ~r.ok
          /\ manager' = r.m
          /\ op' = [name |-> "push", arg |-> Top.candidate, ret |-> FALSE,
                    pre |-> manager, snap |-> manager, between |-> FALSE]
    /\ stack' = [stack EXCEPT ![Len(stack)].candidate = Top.candidate + 1,
                              ![Len(stack)].pc = "loop",
                              ![Len(stack)].tried = Append(@, Top.candidate)]
    /\ since_stop' = Observed("pushes")
    /\ UNCHANGED <<sigVars, poolVars, snaps, solver, stop_flag, pc, result, aborted, completions>>

\* mutant: the first_only test after the pop is missing
BtAfterCall_NoEarlyExit ==
    /\ pc = "backtrack" /\ Top.pc = "called"
    /\ manager' = subset_sum_manager_remove_last(manager)
    /\ op' = [name |-> "pop", arg |-> 0, ret |-> Len(manager.elements) > 0,
              pre |-> manager, snap |-> manager, between |-> FALSE]
    /\ since_stop' = Observed("pops")
    /\ stack' = [stack EXCEPT ![Len(stack)].candidate = Top.candidate + 1,
                              ![Len(stack)].pc = "loop"]
    /\ pc' = pc
    /\ UNCHANGED <<sigVars, poolVars, snaps, solver, stop_flag, result, aborted, completions>>

\* mutant: after the recursive call the loop starts over from min_next
BtAfterCall_Restart ==
    /\ pc = "backtrack" /\ Top.pc = "called"
    /\ manager' = subset_sum_manager_remove_last(manager)
    /\ op' = [name |-> "pop", arg |-> 0, ret |-> Len(manager.elements) > 0,
              pre |-> manager, snap |-> manager, between |-> FALSE]
    /\ since_stop' = Observed("pops")
    /\ IF solver.config.first_only /\ solver.has_solution
       THEN Return
       ELSE /\ stack' = [stack EXCEPT ![Len(stack)].candidate = Top.min_next,
                                      ![Len(stack)].pc = "loop"]
            /\ pc' = pc
    /\ UNCHANGED <<sigVars, poolVars, snaps, solver, stop_flag, result, aborted, completions>>

\* after the recursive call: pop; with first_only and a solution return, else candidate++
BtAfterCall ==
    /\ pc = "backtrack" /\ Top.pc = "called"
    /\ manager' = subset_sum_manager_remove_last(manager)
    /\ op' = [name |-> "pop", arg |-> 0, ret |-> Len(manager.elements) > 0,
              pre |-> manager, snap |-> manager, between |-> FALSE]
    /\ since_stop' = Observed("pops")
    /\ IF solver.config.first_only /\ solver.has_solution
       THEN Return
       ELSE /\ stack' = [stack EXCEPT ![Len(stack)].candidate = Top.candidate + 1,
                                      ![Len(stack)].pc = "loop"]
            /\ pc' = pc
    /\ UNCHANGED <<sigVars, poolVars, snaps, solver, stop_flag, result, aborted, completions>>

\* "result->n = n; if (has_solution) {... OPTIMAL} else {... stop flag ?
\* INTERRUPTED : NO_SOLUTION}"
ResultOf(s, stopped) ==
    IF s.has_solution
    THEN [n |-> s.config.n, max_value |-> s.best_max,
          solution_set |-> s.best_solution, status |-> "OPTIMAL",
          nodes_explored |-> s.stats.nodes_explored]
    ELSE [n |-> s.config.n, max_value |-> 0, solution_set |-> <<>>,
          status |-> IF stopped THEN "INTERRUPTED" ELSE "NO_SOLUTION",
          nodes_explored |-> s.stats.nodes_explored]

\* backtrack_solver_solve after the search: fill the result record
FillResult ==
    /\ pc = "fill"
    /\ result' = ResultOf(solver, stop_flag)
    /\ pc' = "done"
    /\ UNCHANGED <<sigVars, poolVars, manager, op, snaps, solver, stop_flag, stack, aborted,
                   completions, since_stop>>

\* worker_thread, after the run has returned: backtrack_solver_destroy
backtrack_solver_destroy ==
    /\ pc = "done"
    /\ solver' = DestroySolver(solver)
    /\ pc' = "destroyed"
    /\ UNCHANGED <<sigVars, poolVars, manager, op, snaps, stop_flag, stack, result, aborted,
                   completions, since_stop>>

\* the caller (signal_handler) sets the stop flag; nothing ever clears it
SetStop ==
    /\ pc \in {"created", "started", "backtrack", "fill"}
    /\ ~stop_flag
    /\ stop_flag' = TRUE
    /\ since_stop' = [NoStop EXCEPT !.set = TRUE, !.held = Len(manager.elements)]
    /\ UNCHANGED <<sigVars, poolVars, manager, op, snaps, solver, stack, pc, result, aborted,
                   completions>>

Next ==
    \/ backtrack_solver_set_solution_callback
    \/ backtrack_solver_solve
    \/ backtrack_solver_solve_all
    \/ SolveSearch
    \/ BtStopAtEntry
    \/ BtEntryPass
    \/ BtBaseCase
    \/ BtEnter
    \/ BtStopInLoop
    \/ BtLoopPass
    \/ BtBreak
    \/ BtPushOk
    \/ BtPushFail
    \/ BtAfterCall
    \/ FillResult
    \/ backtrack_solver_destroy
    \/ SetStop

Spec == Init /\ [][Next]_vars

\* the scenario "N = 5 with the default bound": the same search, started from
\* the configurations with n = 5 and initial_bound = 0
InitN5 ==
    /\ manager = subset_sum_manager_create("FAST")
    /\ op = NoOp
    /\ snaps = <<>>
    /\ \E cfg \in [n : {5}, initial_bound : {0}, find_all_optimal : BOOLEAN,
                    first_only : BOOLEAN,
                    log_interval_sec : {ERDOS_LOG_INTERVAL_SEC}] :
              solver = backtrack_solver_create(cfg)
    /\ stop_flag = FALSE
    /\ stack = <<>>
    /\ pc = "created"
    /\ result = solution_result_init
    /\ aborted = FALSE
    /\ completions = <<>>
    /\ since_stop = NoStop
    /\ NoPool
    /\ NoSignals

SpecN5 == InitN5 /\ [][Next]_vars

----------------------------------------------------------------------------
(* SpecCb: a client registers the callbacks and runs a search; the run is    *)
(* observed over windows of the node count around the values at which        *)
(* backtrack looks at the clock.                                             *)

\* the user_data pointers a client registers its callbacks with
UserData == {"A", "B"}

\* the node counts at which an observed window of the run begins
WindowStarts == {0, 1022, 2046, 65534, 99326, 99998, 100350, 131070, 196606}

\* the log intervals of the observed runs
LogIntervals == {0, MaxElapsed, ERDOS_LOG_INTERVAL_SEC}

\* the manager at a complete set of the task N = 2: 1 and 2 pushed
CompleteSet ==
    subset_sum_manager_add_element(
        subset_sum_manager_add_element(subset_sum_manager_create("FAST"), 1).m, 2).m

InitCb ==
    /\ manager = subset_sum_manager_create("FAST")
    /\ op = NoOp
    /\ snaps = <<>>
    /\ \E cfg \in [n : {2}, initial_bound : {0}, find_all_optimal : {FALSE},
                    first_only : {FALSE}, log_interval_sec : LogIntervals] :
              solver = backtrack_solver_create(cfg)
    /\ stop_flag = FALSE
    /\ stack = <<>>
    /\ pc = "registering"
    /\ result = solution_result_init
    /\ aborted = FALSE
    /\ completions = <<>>
    /\ since_stop = NoStop
    /\ NoPool
    /\ NoSignals

CbFrame ==
    UNCHANGED <<sigVars, poolVars, manager, op, snaps, stop_flag, stack, result, aborted,
                completions, since_stop>>

\* the client calls backtrack_solver_set_solution_callback(solver, cb, user_data)
CbSetSolutionCallback ==
    /\ pc = "registering"
    /\ ~solver.solution_callback
    /\ \E user_data \in UserData :
           solver' = SetSolutionCallback(solver, TRUE, user_data)
    /\ pc' = pc
    /\ CbFrame

\* the client calls backtrack_solver_set_progress_callback(solver, cb, user_data)
backtrack_solver_set_progress_callback ==
    /\ pc = "registering"
    /\ ~solver.progress_callback
    /\ \E user_data \in UserData :
           solver' = SetProgressCallback(solver, TRUE, user_data)
    /\ pc' = pc
    /\ CbFrame

\* backtrack_solver_solve; the run is picked up when it has counted k nodes
CbSolve ==
    /\ pc = "registering"
    /\ \E k \in WindowStarts :
           solver' = [SolveInit(solver) EXCEPT !.stats.nodes_explored = k]
    /\ pc' = "counting"
    /\ CbFrame

InWindow(nodes) == \E k \in WindowStarts : k <= nodes /\ nodes < k + WindowLen

\* backtrack below depth n: the node is counted and the clock is looked at
CbNode ==
    /\ pc = "counting"
    /\ InWindow(solver.stats.nodes_explored)
    /\ \E now \in TimeNow(solver) :
           solver' = ProgressGate(CountNode(solver, 0), now)
    /\ pc' = pc
    /\ CbFrame

\* backtrack at depth n, at the first complete set: the node is counted, the
\* clock is looked at and the set is saved
CbBaseCase ==
    /\ pc = "counting"
    /\ InWindow(solver.stats.nodes_explored)
    /\ ~solver.has_solution
    /\ \E now \in TimeNow(solver) :
           solver' = BaseCase(ProgressGate(CountNode(solver, solver.config.n), now),
                              CompleteSet)
    /\ pc' = pc
    /\ CbFrame

NextCb ==
    \/ CbSetSolutionCallback
    \/ backtrack_solver_set_progress_callback
    \/ CbSolve
    \/ CbNode
    \/ CbBaseCase

SpecCb == InitCb /\ [][NextCb]_vars

----------------------------------------------------------------------------
(* The definitions the claims are measured against *)

NonEmptyMasks(e) == SUBSET (1..Len(e)) \ {{}}

\* the sums of all nonempty subsets (by position) of the sequence e
SubsetSums(e) == {SumOver(e, T) : T \in NonEmptyMasks(e)}

\* no two distinct nonempty subsets (by position) of e have equal sums
\* (the map from subsets to sums is injective)
DistinctSubsetSums(e) == Cardinality(SubsetSums(e)) = Cardinality(NonEmptyMasks(e))

AllPositive(e) == \A i \in 1..Len(e) : e[i] > 0

StrictlyIncreasing(e) == \A i \in 1..(Len(e) - 1) : e[i] < e[i + 1]

\* the size-N sets of positive integers below B with all distinct subset sums
Feasible(N, B) ==
    {T \in SUBSET (1..(B - 1)) :
        Cardinality(T) = N /\ DistinctSubsetSums(SetToSeq(T))}

\* the least largest element over a nonempty family of sets
MinOfMax(F) == CHOOSE x \in {SetMax(T) : T \in F} : \A T \in F : x <= SetMax(T)

----------------------------------------------------------------------------
(* The worker pool (src/src/main.c: run_range, worker_thread) and the       *)
(* persistence layer (src/src/db_manager.c). Each search a worker runs is   *)
(* one step here: its outcome is any result backtrack_solver_solve can fill *)
(* in for the task; the steps of the search itself are those of Spec.       *)

MaxWorkers == 2
MaxRangeN == 2

\* SQL_HAS_OPTIMAL: SELECT 1 FROM results WHERE n = ? AND status = 'OPTIMAL'
db_manager_has_optimal_solution(d, n) ==
    \E r \in d.results : r.n = n /\ r.status = "OPTIMAL"

\* SQL_SELECT_BEST_BOUND: SELECT MIN(max_value) FROM results WHERE n = ?
\* found iff the row is not NULL
db_manager_get_best_bound(d, n) ==
    LET vs == {r.max_value : r \in {x \in d.results : x.n = n}}
    IN IF vs = {} THEN [found |-> FALSE, bound |-> 0]
       ELSE [found |-> TRUE, bound |-> CHOOSE v \in vs : \A w \in vs : v <= w]

\* SQL_LAST_N: SELECT MAX(n) FROM results WHERE status = 'OPTIMAL'; 0 when NULL
db_manager_get_last_n(d) ==
    SetMax({r.n : r \in {x \in d.results : x.status = "OPTIMAL"}})

\* SQL_INSERT_RESULT; the columns solution_set, nodes_explored and the times are
\* not part of the state
db_manager_save_result(d, res) ==
    [d EXCEPT !.results =
        @ \cup {[n |-> res.n, max_value |-> res.max_value, status |-> res.status]}]

\* SQL_INSERT_OPTIMAL for each of the count sets, in one transaction; the table is
\* kept as the N values that have sets stored
db_manager_save_optimal_sets(d, n, count) ==
    [d EXCEPT !.optimal_sets = IF count > 0 THEN @ \cup {n} ELSE @]

\* pthread_mutex_lock(&manager->mutex): blocks until the mutex is free
MutexLock(who) ==
    /\ db.mutex = Nobody
    /\ db' = [db EXCEPT !.mutex = who]

\* mutant: the return after a failed sqlite3_prepare_v2 does not unlock
MutexUnlock_NotOnFailure(d) ==
    IF d.prepare_ok THEN [d EXCEPT !.mutex = Nobody] ELSE d

\* "if (rc != SQLITE_OK) { pthread_mutex_unlock; return false; }" and the
\* pthread_mutex_unlock before the normal return: d is the database the call leaves
MutexUnlock(d) == [d EXCEPT !.mutex = Nobody]

\* the solver after "solve": the N = 1 special case, or what backtrack leaves:
\* a recorded set with distinct subset sums below the bound (in enumerate-all mode
\* the list then holds it), or no solution, which takes a stop request or a bound
\* with no such set below it
SearchOutcomes(s, stopped) ==
    IF s.config.n = 1
    THEN {[s EXCEPT !.best_max = 1, !.best_solution = <<1>>, !.has_solution = TRUE]}
    ELSE LET F == Feasible(s.config.n, s.config.initial_bound)
         IN (IF stopped \/ F = {} THEN {s} ELSE {}) \cup
            {[s EXCEPT !.has_solution = TRUE,
                       !.best_max = SetMax(T), !.stats.best_max = SetMax(T),
                       !.best_solution = SetToSeq(T),
                       !.all_optimal_solutions =
                           IF s.config.find_all_optimal THEN <<SetToSeq(T)>> ELSE <<>>] :
               T \in F}

\* a Worker slot after calloc
FreeSlot == [n |-> 0, completed |-> FALSE, thread |-> 0]

\* mutant: a slot counts as free as soon as its completed flag is clear
SlotIsFree_IgnoresTask(w) == ~w.completed

\* "!workers[i].completed && workers[i].task.n == 0"
SlotIsFree(w) == ~w.completed /\ w.n = 0

\* the rows a database file may hold before the run
StoredRows ==
    {[n |-> 1, max_value |-> 1, status |-> "OPTIMAL"],
     [n |-> 2, max_value |-> 2, status |-> "FEASIBLE"],
     [n |-> 2, max_value |-> 4, status |-> "FEASIBLE"]}

\* main has called run_range(start_n, max_n, num_workers, find_all, ...) and
\* db_manager_create has opened the database, or failed and returned NULL; in an
\* open database sqlite3_prepare_v2 either works for every statement or fails for
\* every statement (prepare_ok); rows that no statement can read are left out
InitPool ==
    /\ manager = subset_sum_manager_create("FAST")
    /\ op = NoOp
    /\ snaps = <<>>
    /\ solver = backtrack_solver_create(IdleConfig)
    /\ stop_flag = FALSE
    /\ stack = <<>>
    /\ pc = "idle"
    /\ result = solution_result_init
    /\ aborted = FALSE
    /\ completions = <<>>
    /\ since_stop = NoStop
    /\ \E w \in 1..MaxWorkers : \E s \in 0..1 : \E m \in 1..MaxRangeN : \E all \in BOOLEAN :
          /\ pool = [pc |-> "last_n", num_workers |-> w, start_n |-> s, max_n |-> m,
                     find_all |-> all, current_n |-> 0, active_workers |-> 0, i |-> 0]
          /\ workers = [i \in 1..w |-> FreeSlot]
    /\ threads = <<>>
    /\ \E open \in BOOLEAN : \E ok \in BOOLEAN : \E rows \in SUBSET StoredRows :
          /\ ~open => ~ok
          /\ ~ok => rows = {}
          /\ db = [open |-> open, prepare_ok |-> ok, mutex |-> Nobody,
                   result_mutex |-> Nobody, results |-> rows, optimal_sets |-> {}]
    /\ NoSignals

\* run_range: db_manager_get_last_n takes the mutex (returns 0 at once when the
\* manager is NULL)
M_LastNLock ==
    /\ pool.pc = "last_n"
    /\ IF db.open
       THEN /\ MutexLock(MainThread)
            /\ pool' = [pool EXCEPT !.pc = "last_n_in"]
       ELSE /\ db' = db
            /\ pool' = [pool EXCEPT !.pc = "while",
                                    !.current_n = IF pool.start_n = 0 THEN 1
                                                  ELSE pool.start_n]
    /\ UNCHANGED <<sigVars, manager, op, snaps, solverVars, workers, threads>>

\* db_manager_get_last_n inside the mutex, then "if (start_n == 0) start_n = last_n
\* > 0 ? last_n + 1 : 1; current_n = start_n; active_workers = 0"
M_LastN ==
    /\ pool.pc = "last_n_in"
    /\ LET ok == db.prepare_ok
       IN LET last_n == IF ok THEN db_manager_get_last_n(db) ELSE 0
              start_n == IF pool.start_n = 0
                         THEN (IF last_n > 0 THEN last_n + 1 ELSE 1)
                         ELSE pool.start_n
          IN pool' = [pool EXCEPT !.pc = "while", !.start_n = start_n,
                                  !.current_n = start_n]
    /\ db' = MutexUnlock(db)
    /\ UNCHANGED <<sigVars, manager, op, snaps, solverVars, workers, threads>>

\* "while (!g_stop_flag && (current_n <= max_n || active_workers > 0))"
M_While ==
    /\ pool.pc = "while"
    /\ pool' = IF ~stop_flag /\ (pool.current_n <= pool.max_n \/ pool.active_workers > 0)
               THEN [pool EXCEPT !.pc = "start", !.i = 1]
               ELSE [pool EXCEPT !.pc = "final", !.i = 1]
    /\ UNCHANGED <<sigVars, manager, op, snaps, solverVars, workers, threads, db>>

\* the thread pthread_create starts on slot i for task n
NewThread(i, n) ==
    [slot |-> i, n |-> n, pc |-> "start", bound |-> 0,
     seeded |-> [found |-> FALSE, bound |-> 0], used |-> 0, searched |-> FALSE,
     result |-> solution_result_init, count |-> 0, saves |-> 0, set_saves |-> 0]

\* the first for loop: a free slot gets task n = current_n and a new thread
M_Start ==
    /\ pool.pc = "start"
    /\ IF pool.i <= pool.num_workers /\ pool.current_n <= pool.max_n /\ ~stop_flag
       THEN IF SlotIsFree(workers[pool.i])
            THEN /\ workers' = [workers EXCEPT ![pool.i] =
                                   [n |-> pool.current_n, completed |-> FALSE,
                                    thread |-> Len(threads) + 1]]
                 /\ threads' = Append(threads, NewThread(pool.i, pool.current_n))
                 /\ pool' = [pool EXCEPT !.active_workers = @ + 1,
                                         !.current_n = @ + 1, !.i = @ + 1]
            ELSE /\ pool' = [pool EXCEPT !.i = @ + 1]
                 /\ UNCHANGED <<workers, threads>>
       ELSE /\ pool' = [pool EXCEPT !.pc = "check", !.i = 1]
            /\ UNCHANGED <<workers, threads>>
    /\ UNCHANGED <<sigVars, manager, op, snaps, solverVars, db>>

\* the second for loop: "if (workers[i].task.n != 0 && workers[i].completed)";
\* after it usleep and back to the while test
M_Check ==
    /\ pool.pc = "check"
    /\ pool' = IF pool.i <= pool.num_workers
               THEN IF workers[pool.i].n # 0 /\ workers[pool.i].completed
                    THEN [pool EXCEPT !.pc = "join"]
                    ELSE [pool EXCEPT !.i = @ + 1]
               ELSE [pool EXCEPT !.pc = "while"]
    /\ UNCHANGED <<sigVars, manager, op, snaps, solverVars, workers, threads, db>>

\* a thread that has been joined: its Worker slot is given up, of its record only
\* the task's N is kept
Joined(th) == [NewThread(th.slot, th.n) EXCEPT !.pc = "joined"]

\* mutant: the slot is not reset after the join
M_Join_KeepsTask ==
    /\ pool.pc = "join"
    /\ threads[workers[pool.i].thread].pc = "exited"
    /\ threads' = [threads EXCEPT ![workers[pool.i].thread] = Joined(@)]
    /\ workers' = workers
    /\ pool' = [pool EXCEPT !.active_workers = @ - 1, !.i = @ + 1, !.pc = "check"]
    /\ UNCHANGED <<sigVars, manager, op, snaps, solverVars, db>>

\* pthread_join returns once the thread has returned; then the slot is reset
M_Join ==
    /\ pool.pc = "join"
    /\ threads[workers[pool.i].thread].pc = "exited"
    /\ threads' = [threads EXCEPT ![workers[pool.i].thread] = Joined(@)]
    /\ workers' = [workers EXCEPT ![pool.i].n = 0, ![pool.i].completed = FALSE]
    /\ pool' = [pool EXCEPT !.active_workers = @ - 1, !.i = @ + 1, !.pc = "check"]
    /\ UNCHANGED <<sigVars, manager, op, snaps, solverVars, db>>

\* after the while loop: "if (workers[i].task.n != 0) pthread_join(...)"
M_Final ==
    /\ pool.pc = "final"
    /\ pool' = IF pool.i <= pool.num_workers
               THEN IF workers[pool.i].n # 0
                    THEN [pool EXCEPT !.pc = "final_join"]
                    ELSE [pool EXCEPT !.i = @ + 1]
               ELSE [pool EXCEPT !.pc = "destroy"]
    /\ UNCHANGED <<sigVars, manager, op, snaps, solverVars, workers, threads, db>>

M_FinalJoin ==
    /\ pool.pc = "final_join"
    /\ threads[workers[pool.i].thread].pc = "exited"
    /\ threads' = [threads EXCEPT ![workers[pool.i].thread] = Joined(@)]
    /\ pool' = [pool EXCEPT !.i = @ + 1, !.pc = "final"]
    /\ UNCHANGED <<sigVars, manager, op, snaps, solverVars, workers, db>>

\* db_manager_destroy takes the mutex (returns at once when the manager is NULL)
M_DestroyLock ==
    /\ pool.pc = "destroy"
    /\ IF db.open
       THEN /\ MutexLock(MainThread)
            /\ pool' = [pool EXCEPT !.pc = "destroy_in"]
       ELSE /\ db' = db
            /\ pool' = [pool EXCEPT !.pc = "finished"]
    /\ UNCHANGED <<sigVars, manager, op, snaps, solverVars, workers, threads>>

\* sqlite3_close, unlock, pthread_mutex_destroy, free; g_db_manager = NULL
M_Destroy ==
    /\ pool.pc = "destroy_in"
    /\ db' = [MutexUnlock(db) EXCEPT !.open = FALSE]
    /\ pool' = [pool EXCEPT !.pc = "finished"]
    /\ UNCHANGED <<sigVars, manager, op, snaps, solverVars, workers, threads>>

\* the other steps leave the search variables and run_range's variables alone
WorkerFrame == UNCHANGED <<sigVars, manager, op, snaps, solverVars, pool>>

\* worker_thread: solution_result_init, then db_manager_has_optimal_solution takes
\* the mutex; without a manager the check and the bound lookup are skipped
W_HasOptimalLock(t) ==
    /\ threads[t].pc = "start"
    /\ IF db.open
       THEN /\ MutexLock(WorkerThread(t))
            /\ threads' = [threads EXCEPT ![t].pc = "has_optimal"]
       ELSE /\ db' = db
            /\ threads' = [threads EXCEPT ![t].pc = "solve"]
    /\ UNCHANGED workers
    /\ WorkerFrame

\* db_manager_has_optimal_solution inside the mutex; when found: "result.n = n;
\* result.status = OPTIMAL; completed = true; return" with no search
W_HasOptimal(t) ==
    /\ threads[t].pc = "has_optimal"
    /\ LET ok == db.prepare_ok
       IN threads' =
             IF ok /\ db_manager_has_optimal_solution(db, threads[t].n)
             THEN [threads EXCEPT ![t].pc = "complete",
                                  ![t].result.n = threads[t].n,
                                  ![t].result.status = "OPTIMAL"]
             ELSE [threads EXCEPT ![t].pc = "get_bound"]
    /\ db' = MutexUnlock(db)
    /\ UNCHANGED workers
    /\ WorkerFrame

\* db_manager_get_best_bound takes the mutex
W_GetBoundLock(t) ==
    /\ threads[t].pc = "get_bound"
    /\ MutexLock(WorkerThread(t))
    /\ threads' = [threads EXCEPT ![t].pc = "get_bound_in"]
    /\ UNCHANGED workers
    /\ WorkerFrame

\* "config.initial_bound = 0; if (db_manager_get_best_bound(.., &bound))
\* config.initial_bound = bound;"
SeedBound(n, r) == IF r.found THEN r.bound ELSE 0

\* db_manager_get_best_bound inside the mutex, and the assignment that follows
W_GetBound(t) ==
    /\ threads[t].pc = "get_bound_in"
    /\ LET ok == db.prepare_ok
       IN LET r == IF ok THEN db_manager_get_best_bound(db, threads[t].n)
                   ELSE [found |-> FALSE, bound |-> 0]
          IN threads' = [threads EXCEPT ![t].pc = "solve",
                                        ![t].seeded = r,
                                        ![t].bound = SeedBound(threads[t].n, r)]
    /\ db' = MutexUnlock(db)
    /\ UNCHANGED workers
    /\ WorkerFrame

\* backtrack_solver_create and backtrack_solver_solve / _solve_all: the search
\* starts from SolveInit's bound and returns one of its outcomes
W_Solve(t) ==
    /\ threads[t].pc = "solve"
    /\ LET cfg == [n |-> threads[t].n, initial_bound |-> threads[t].bound,
                   find_all_optimal |-> pool.find_all, first_only |-> FALSE,
                   log_interval_sec |-> ERDOS_LOG_INTERVAL_SEC]
           s == SolveInit(backtrack_solver_create(cfg))
       IN \E after \in SearchOutcomes(s, stop_flag) :
             LET res == ResultOf(after, stop_flag)
             IN threads' = [threads EXCEPT
                   ![t].used = s.config.initial_bound,
                   ![t].searched = TRUE,
                   ![t].result = res,
                   ![t].count = Len(after.all_optimal_solutions),
                   ![t].pc = IF db.open /\ res.status = "OPTIMAL"
                             THEN "save" ELSE "complete"]
    /\ UNCHANGED <<workers, db>>
    /\ WorkerFrame

\* pthread_mutex_lock(&g_result_mutex)
W_ResultLock(t) ==
    /\ threads[t].pc = "save"
    /\ db.result_mutex = Nobody
    /\ db' = [db EXCEPT !.result_mutex = WorkerThread(t)]
    /\ threads' = [threads EXCEPT ![t].pc = "save_result"]
    /\ UNCHANGED workers
    /\ WorkerFrame

\* db_manager_save_result takes the mutex
W_SaveResultLock(t) ==
    /\ threads[t].pc = "save_result"
    /\ MutexLock(WorkerThread(t))
    /\ threads' = [threads EXCEPT ![t].pc = "save_result_in", ![t].saves = @ + 1]
    /\ UNCHANGED workers
    /\ WorkerFrame

\* db_manager_save_result inside the mutex; then "if (find_all_optimal) { count =
\* get_optimal_solutions; if (count > 0) save_optimal_sets }"
W_SaveResult(t) ==
    /\ threads[t].pc = "save_result_in"
    /\ LET ok == db.prepare_ok
       IN db' = MutexUnlock(IF ok THEN db_manager_save_result(db, threads[t].result)
                            ELSE db)
    /\ threads' = [threads EXCEPT
          ![t].pc = IF pool.find_all /\ threads[t].count > 0
                    THEN "save_sets" ELSE "unlock"]
    /\ UNCHANGED workers
    /\ WorkerFrame

\* db_manager_save_optimal_sets takes the mutex
W_SaveSetsLock(t) ==
    /\ threads[t].pc = "save_sets"
    /\ MutexLock(WorkerThread(t))
    /\ threads' = [threads EXCEPT ![t].pc = "save_sets_in", ![t].set_saves = @ + 1]
    /\ UNCHANGED workers
    /\ WorkerFrame

\* db_manager_save_optimal_sets inside the mutex
W_SaveSets(t) ==
    /\ threads[t].pc = "save_sets_in"
    /\ LET ok == db.prepare_ok
       IN db' = MutexUnlock(IF ok
                            THEN db_manager_save_optimal_sets(db, threads[t].n,
                                                              threads[t].count)
                            ELSE db)
    /\ threads' = [threads EXCEPT ![t].pc = "unlock"]
    /\ UNCHANGED workers
    /\ WorkerFrame

\* pthread_mutex_unlock(&g_result_mutex)
W_ResultUnlock(t) ==
    /\ threads[t].pc = "unlock"
    /\ db' = [db EXCEPT !.result_mutex = Nobody]
    /\ threads' = [threads EXCEPT ![t].pc = "complete"]
    /\ UNCHANGED workers
    /\ WorkerFrame

\* backtrack_solver_destroy; "worker->completed = true;"
W_Complete(t) ==
    /\ threads[t].pc = "complete"
    /\ workers' = [workers EXCEPT ![threads[t].slot].completed = TRUE]
    /\ threads' = [threads EXCEPT ![t].pc = "return"]
    /\ UNCHANGED db
    /\ WorkerFrame

\* "return NULL;": the thread has ended and can be joined
W_Return(t) ==
    /\ threads[t].pc = "return"
    /\ threads' = [threads EXCEPT ![t].pc = "exited"]
    /\ UNCHANGED <<workers, db>>
    /\ WorkerFrame

\* signal_handler: "g_stop_flag = true"
SignalStop ==
    /\ pool.pc \notin {"none", "finished"}
    /\ ~stop_flag
    /\ stop_flag' = TRUE
    /\ UNCHANGED <<manager, op, snaps, solver, stack, pc, result, aborted,
                   completions, since_stop, poolVars, sigVars>>

WorkerStep(t) ==
    \/ W_HasOptimalLock(t)
    \/ W_HasOptimal(t)
    \/ W_GetBoundLock(t)
    \/ W_GetBound(t)
    \/ W_Solve(t)
    \/ W_ResultLock(t)
    \/ W_SaveResultLock(t)
    \/ W_SaveResult(t)
    \/ W_SaveSetsLock(t)
    \/ W_SaveSets(t)
    \/ W_ResultUnlock(t)
    \/ W_Complete(t)
    \/ W_Return(t)

MainStep ==
    \/ M_LastNLock
    \/ M_LastN
    \/ M_While
    \/ M_Start
    \/ M_Check
    \/ M_Join
    \/ M_Final
    \/ M_FinalJoin
    \/ M_DestroyLock
    \/ M_Destroy

NextPool ==
    \/ MainStep
    \/ \E t \in 1..Len(threads) : WorkerStep(t)
    \/ SignalStop

SpecPool == InitPool /\ [][NextPool]_vars

----------------------------------------------------------------------------
(* SpecSig: threads of the process write log messages (log_message takes the *)
(* logger mutex) while SIGINT and SIGTERM are delivered to any of them;      *)
(* signal_handler logs a warning through log_message, then sets g_stop_flag. *)

\* setup_signal_handlers installs signal_handler for these, sa_mask empty
Signals == {"SIGINT", "SIGTERM"}

\* thread 1 is the main thread, the others are worker threads
ThreadOf(t) == IF t = 1 THEN MainThread ELSE WorkerThread(t - 1)

InitSig ==
    /\ manager = subset_sum_manager_create("FAST")
    /\ op = NoOp
    /\ snaps = <<>>
    /\ solver = backtrack_solver_create(IdleConfig)
    /\ stop_flag = FALSE
    /\ stack = <<>>
    /\ pc = "idle"
    /\ result = solution_result_init
    /\ aborted = FALSE
    /\ completions = <<>>
    /\ since_stop = NoStop
    /\ NoPool
    /\ logger = [mutex |-> Nobody]
    /\ sig = [t \in 1..SigThreads |-> [pc |-> "run", handlers |-> <<>>]]

SigFrame ==
    UNCHANGED <<poolVars, manager, op, snaps, solver, stack, pc, result, aborted,
                completions, since_stop>>

\* the handler that runs on thread t: the innermost one
TopHandler(t) == sig[t].handlers[Len(sig[t].handlers)]

\* thread t, outside any handler, calls log_message (LOG_INFO, log_progress, ..)
S_LogCall(t) ==
    /\ sig[t].handlers = <<>>
    /\ sig[t].pc = "run"
    /\ sig' = [sig EXCEPT ![t].pc = "log_lock"]
    /\ UNCHANGED <<logger, stop_flag>>
    /\ SigFrame

\* log_message: pthread_mutex_lock(&g_log_mutex) returns once the mutex is free
S_LogLock(t) ==
    /\ sig[t].handlers = <<>>
    /\ sig[t].pc = "log_lock"
    /\ logger.mutex = Nobody
    /\ logger' = [logger EXCEPT !.mutex = ThreadOf(t)]
    /\ sig' = [sig EXCEPT ![t].pc = "log_write"]
    /\ UNCHANGED stop_flag
    /\ SigFrame

\* log_message: the message is written, pthread_mutex_unlock(&g_log_mutex)
S_LogUnlock(t) ==
    /\ sig[t].handlers = <<>>
    /\ sig[t].pc = "log_write"
    /\ logger' = [logger EXCEPT !.mutex = Nobody]
    /\ sig' = [sig EXCEPT ![t].pc = "run"]
    /\ UNCHANGED stop_flag
    /\ SigFrame

\* signal s is delivered to thread t, wherever it stands; s itself is blocked
\* while its handler runs, the other signal is not (sa_mask is empty)
S_Deliver(t, s) ==
    /\ \A i \in 1..Len(sig[t].handlers) : sig[t].handlers[i].signal # s
    /\ sig' = [sig EXCEPT ![t].handlers = Append(@, [signal |-> s, pc |-> "entry"])]
    /\ UNCHANGED <<logger, stop_flag>>
    /\ SigFrame

\* signal_handler: LOG_WARNING -> log_message -> pthread_mutex_lock; WARNING
\* is never below g_log_level (INFO or DEBUG). The mutex is free: it is taken.
H_LogLock(t) ==
    /\ sig[t].handlers # <<>>
    /\ TopHandler(t).pc = "entry"
    /\ logger.mutex = Nobody
    /\ logger' = [logger EXCEPT !.mutex = ThreadOf(t)]
    /\ sig' = [sig EXCEPT ![t].handlers[Len(sig[t].handlers)].pc = "log_write"]
    /\ UNCHANGED stop_flag
    /\ SigFrame

\* the same call while thread t itself holds the mutex (PTHREAD_MUTEX_INITIALIZER,
\* a default mutex): the handler waits for a mutex that only the code it
\* interrupted can release, and that code resumes only when the handler returns
H_LogLockSelf(t) ==
    /\ sig[t].handlers # <<>>
    /\ TopHandler(t).pc = "entry"
    /\ logger.mutex = ThreadOf(t)
    /\ sig' = [sig EXCEPT ![t].handlers[Len(sig[t].handlers)].pc = "deadlock"]
    /\ UNCHANGED <<logger, stop_flag>>
    /\ SigFrame

\* log_message inside the handler: the message is written, the mutex released
H_LogUnlock(t) ==
    /\ sig[t].handlers # <<>>
    /\ TopHandler(t).pc = "log_write"
    /\ logger' = [logger EXCEPT !.mutex = Nobody]
    /\ sig' = [sig EXCEPT ![t].handlers[Len(sig[t].handlers)].pc = "set_flag"]
    /\ UNCHANGED stop_flag
    /\ SigFrame

\* signal_handler: "g_stop_flag = true", and the handler returns
H_SetFlag(t) ==
    /\ sig[t].handlers # <<>>
    /\ TopHandler(t).pc = "set_flag"
    /\ stop_flag' = TRUE
    /\ sig' = [sig EXCEPT
                 ![t].handlers = SubSeq(@, 1, Len(sig[t].handlers) - 1)]
    /\ UNCHANGED logger
    /\ SigFrame

NextSig ==
    \E t \in 1..SigThreads :
        \/ S_LogCall(t)
        \/ S_LogLock(t)
        \/ S_LogUnlock(t)
        \/ \E s \in Signals : S_Deliver(t, s)
        \/ H_LogLock(t)
        \/ H_LogLockSelf(t)
        \/ H_LogUnlock(t)
        \/ H_SetFlag(t)

SpecSig == InitSig /\ [][NextSig]_vars

----------------------------------------------------------------------------
(* Claims about the manager (SpecMgr) *)

\* C1 as stated: in fast mode, try_push(v) returns true iff E with v appended has
\* all distinct nonempty subset sums, for any v and any reachable E.
C1_CollisionSoundness_AsStated ==
    (op.name = "push" /\ op.pre.type = "FAST")
        => (op.ret <=> DistinctSubsetSums(Append(op.pre.elements, op.arg)))

\* C1 amended: in fast mode, when v and all elements of E are positive, try_push(v)
\* returns true only if E with v appended has all distinct nonempty subset sums, and
\* false only if two distinct subsets of it have equal sums.
C1_CollisionSoundness ==
    (/\ op.name = "push"
     /\ op.pre.type = "FAST"
     /\ AllPositive(Append(op.pre.elements, op.arg)))
        => /\ op.ret => DistinctSubsetSums(Append(op.pre.elements, op.arg))
           /\ ~op.ret => ~DistinctSubsetSums(Append(op.pre.elements, op.arg))

\* C1 witness: a push onto two positive elements refused for a sum collision that
\* the loop over the current sums finds (v itself is not a stored sum).
C1_Witness ==
    /\ op.name = "push" /\ op.pre.type = "FAST" /\ ~op.ret
    /\ Len(op.pre.elements) = 2
    /\ AllPositive(Append(op.pre.elements, op.arg))
    /\ op.arg \notin op.pre.sums_set

\* C2 as stated: in fast mode, after every call, S is exactly the set of nonempty
\* subset sums of E and |S| = 2^|E| - 1.
C2_SumCoverage_AsStated ==
    manager.type = "FAST"
        => /\ manager.sums_set = SubsetSums(manager.elements)
           /\ Cardinality(manager.sums_set) = Pow2(Len(manager.elements)) - 1

\* C2 amended: in fast mode, after every call that leaves only positive elements
\* in E, S is exactly the set of nonempty subset sums of E and |S| = 2^|E| - 1.
C2_SumCoverage ==
    (manager.type = "FAST" /\ AllPositive(manager.elements))
        => /\ manager.sums_set = SubsetSums(manager.elements)
           /\ Cardinality(manager.sums_set) = Pow2(Len(manager.elements)) - 1

\* C2 witness: a successful push of a third positive element in fast mode.
C2_Witness ==
    /\ manager.type = "FAST" /\ op.name = "push" /\ op.ret
    /\ Len(manager.elements) = 3
    /\ AllPositive(manager.elements)

\* C3: the manager after the pop matching a successful try_push equals the manager
\* just before that try_push (elements, sum set and history), whatever calls were
\* made in between.
C3_ManagerSymmetry ==
    (op.name = "pop" /\ Len(op.pre.elements) > 0) => manager = op.snap

\* C3 witness: in fast mode, a pop back to a nonempty manager whose matching push
\* was followed by other calls (failed pushes or balanced push/pop pairs).
C3_Witness ==
    /\ op.name = "pop" /\ op.pre.type = "FAST"
    /\ Len(op.pre.elements) = 2
    /\ op.between

\* C4: a try_push that returns false leaves elements, sum set and history as they
\* were, and the same try_push repeated at once returns false and changes nothing.
C4_AtomicFailure ==
    (op.name = "push" /\ ~op.ret)
        => /\ manager = op.pre
           /\ LET again == subset_sum_manager_add_element(manager, op.arg)
              IN ~again.ok /\ again.m = manager

\* C4 witness: in fast mode, a push refused inside the loop over the current sums
\* (after the snapshot was taken), with two elements held.
C4_Witness ==
    /\ op.name = "push" /\ ~op.ret /\ op.pre.type = "FAST"
    /\ Len(op.pre.elements) = 2
    /\ op.arg \notin op.pre.sums_set

RECURSIVE FastReplay(_, _)
\* the fast-mode manager m after try_push of each element of e in turn; ok is
\* FALSE if one of the pushes is refused
FastReplay(m, e) ==
    IF e = <<>> THEN [ok |-> TRUE, m |-> m]
    ELSE LET r == subset_sum_manager_add_element(m, Head(e))
         IN IF r.ok THEN FastReplay(r.m, Tail(e)) ELSE [ok |-> FALSE, m |-> r.m]

\* C17 as stated: a try_push(v) on an iterative-mode manager holding at most
\* MaskLimit elements returns false exactly when E with v appended has two distinct
\* subsets with equal sums, and a fast-mode manager given the same pushes holds the
\* same E and returns the same result.
C17_IterativeAgrees_AsStated ==
    (/\ op.name = "push"
     /\ op.pre.type = "ITERATIVE"
     /\ Len(op.pre.elements) <= MaskLimit)
        => /\ ~op.ret <=> ~DistinctSubsetSums(Append(op.pre.elements, op.arg))
           /\ LET f == FastReplay(subset_sum_manager_create("FAST"), op.pre.elements)
                  g == subset_sum_manager_add_element(f.m, op.arg)
              IN /\ f.ok
                 /\ g.ok = op.ret
                 /\ g.m.elements = manager.elements

\* C17 amended: the same, for positive v and positive elements of E.
C17_IterativeAgrees ==
    (/\ op.name = "push"
     /\ op.pre.type = "ITERATIVE"
     /\ Len(op.pre.elements) <= MaskLimit
     /\ AllPositive(Append(op.pre.elements, op.arg)))
        => /\ ~op.ret <=> ~DistinctSubsetSums(Append(op.pre.elements, op.arg))
           /\ LET f == FastReplay(subset_sum_manager_create("FAST"), op.pre.elements)
                  g == subset_sum_manager_add_element(f.m, op.arg)
              IN /\ f.ok
                 /\ g.ok = op.ret
                 /\ g.m.elements = manager.elements

\* C17 witness: an iterative-mode push onto two positive elements that is refused
\* by the second test (v plus a subset equals a disjoint subset; v is no subset sum).
C17_Witness ==
    /\ op.name = "push" /\ op.pre.type = "ITERATIVE" /\ ~op.ret
    /\ Len(op.pre.elements) = 2
    /\ AllPositive(Append(op.pre.elements, op.arg))
    /\ op.arg \notin SubsetSums(op.pre.elements)

\* C18: a try_push of a positive value on an iterative-mode manager that already
\* holds more than MaskLimit (62 in the code) positive elements does not return
\* success: beyond the limit only the first test is made, so every success there
\* comes after a partial collision check.
C18_IterativeBeyondLimitRefused ==
    (/\ op.name = "push"
     /\ op.pre.type = "ITERATIVE"
     /\ Len(op.pre.elements) > MaskLimit
     /\ AllPositive(Append(op.pre.elements, op.arg)))
        => ~op.ret

\* C25: a pop on a manager whose E is empty leaves E, S and H as they were, in
\* both modes, and what it leaves is the manager as constructed; the try_push that
\* follows such a pop returns what it returns on the manager as constructed and
\* leaves the manager that push leaves.
C25_PopOnEmpty ==
    /\ []((op.name = "pop" /\ Len(op.pre.elements) = 0)
            => /\ manager = op.pre
               /\ manager = subset_sum_manager_create(manager.type))
    /\ [][(/\ op.name = "pop"
           /\ Len(op.pre.elements) = 0
           /\ op'.name = "push")
            => LET fresh == subset_sum_manager_add_element(
                                subset_sum_manager_create(manager.type), op'.arg)
               IN /\ op'.ret = fresh.ok
                  /\ manager' = fresh.m]_vars

\* C25 witness: a pop was made on a fast-mode manager whose E was empty, with no
\* successful push outstanding.
C25_Witness ==
    /\ op.name = "pop"
    /\ Len(op.pre.elements) = 0
    /\ ~op.ret
    /\ op.pre.type = "FAST"
    /\ Len(snaps) = 0

\* the sums that pushing e[k] onto e[1..k-1] introduces: e[k] alone and e[k] plus
\* every nonempty subset sum of the elements below it
IntroducedBy(e, k) ==
    {e[k]} \cup {e[k] + x : x \in SubsetSums(SubSeq(e, 1, k - 1))}

\* the history stack of m has one frame per element; frame k lists, without
\* repeats, exactly the 2^(k-1) sums introduced by E[k] (k counted from 1; 2^k
\* counted from 0); the frames are pairwise disjoint and their union is S
HistoryMatches(m) ==
    LET e == m.elements
        h == m.history
    IN /\ Len(h) = Len(e)
       /\ \A k \in 1..Len(h) :
              /\ Len(h[k]) = Pow2(k - 1)
              /\ Cardinality(Range(h[k])) = Len(h[k])
              /\ Range(h[k]) = IntroducedBy(e, k)
       /\ \A j \in 1..Len(h) : \A k \in 1..Len(h) :
              j # k => Range(h[j]) \cap Range(h[k]) = {}
       /\ UNION {Range(h[k]) : k \in 1..Len(h)} = m.sums_set

\* C27 as stated: after every operation on a fast-mode manager the history stack
\* has |E| frames, frame k holds exactly the sums introduced when E[k] was pushed,
\* 2^k of them without repeats, and the frames are pairwise disjoint with union S.
C27_HistoryInvariant_AsStated ==
    manager.type = "FAST" => HistoryMatches(manager)

\* C27 amended: the same, after every operation that leaves only positive elements
\* in E.
C27_HistoryInvariant ==
    (manager.type = "FAST" /\ AllPositive(manager.elements))
        => HistoryMatches(manager)

\* C27 witness: a fast-mode manager holds three positive elements right after a
\* push onto them was refused and its frame rolled back.
C27_Witness ==
    /\ manager.type = "FAST"
    /\ Len(manager.elements) = 3
    /\ AllPositive(manager.elements)
    /\ op.name = "push"
    /\ ~op.ret

----------------------------------------------------------------------------
(* Claims about the search (Spec) *)

Finished == pc = "done"

\* C5: a search for N >= 2 that ends with the stop flag never set and early exit off
\* returns the least possible largest element over all size-N sets below the bound B
\* with distinct subset sums, with a set attaining it; NO_SOLUTION if there is none.
C5_OptimalWithinBound ==
    (/\ Finished
     /\ solver.config.n >= 2
     /\ ~stop_flag
     /\ ~solver.config.first_only)
        => LET F == Feasible(solver.config.n, solver.config.initial_bound)
           IN IF F = {}
              THEN result.status = "NO_SOLUTION"
              ELSE /\ result.status = "OPTIMAL"
                   /\ result.max_value = MinOfMax(F)
                   /\ Range(result.solution_set) \in F
                   /\ SetMax(Range(result.solution_set)) = result.max_value

\* C5 witness: an undisturbed search for N = 4 that improved on its first completion
\* (largest element 8) and returned 7.
C5_Witness ==
    /\ Finished /\ ~stop_flag /\ ~solver.config.first_only
    /\ solver.config.n = 4
    /\ solver.stats.solutions_found >= 2
    /\ result.status = "OPTIMAL" /\ result.max_value = 7

\* C6 (for N >= 2): after run_all ends without being stopped (early exit off),
\* optimal[] holds every size-N set with distinct subset sums whose largest element
\* is the returned best_max, each exactly once.
C6_EnumerateAllComplete ==
    (/\ Finished
     /\ solver.config.find_all_optimal
     /\ solver.config.n >= 2
     /\ ~stop_flag
     /\ ~solver.config.first_only
     /\ result.status = "OPTIMAL")
        => LET opt == solver.all_optimal_solutions
           IN /\ {Range(opt[i]) : i \in 1..Len(opt)}
                   = {T \in Feasible(solver.config.n, result.max_value + 1) :
                         SetMax(T) = result.max_value}
              /\ \A i \in 1..Len(opt) : \A j \in 1..Len(opt) :
                     i # j => opt[i] # opt[j]

\* C7: a search that returned because of the stop flag reports INTERRUPTED.
C7_InterruptReported ==
    (Finished /\ aborted) => result.status = "INTERRUPTED"

C9_PopOnReturn ==
    /\ (pc = "backtrack" /\ Top.pc = "entry") => Len(manager.elements) = Top.depth
    /\ pc \in {"fill", "done"} => manager = subset_sum_manager_create("FAST")

\* C9 witness: the search came back stopped while it was at least two levels deep.
C9_Witness ==
    /\ pc = "fill" /\ aborted
    /\ solver.stats.current_depth >= 2
    /\ op.name = "pop"

\* C10: in every step of a run, best_max does not increase once has_solution is
\* true, and nodes_explored does not decrease.
C10_SearchMonotone ==
    [][/\ solver.has_solution => solver'.best_max <= solver.best_max
       /\ solver'.stats.nodes_explored >= solver.stats.nodes_explored]_vars

\* C10 witness: a second, strictly better completion was recorded after more nodes.
C10_Witness ==
    /\ solver.has_solution
    /\ solver.stats.solutions_found >= 2
    /\ solver.best_max < compute_initial_bound(solver.config.n) - 1
    /\ solver.stats.nodes_explored > solver.config.n + 1

\* the completions that are strictly better than best_max was when they were reached
Improving(c) == c.max < c.best

\* the completions that are at least as good as best_max was when they were reached
AtLeastAsGood(c) == c.max <= c.best

MaxesOf(cs) == [i \in 1..Len(cs) |-> cs[i].max]

StrictlyDecreasing(e) == \A i \in 1..(Len(e) - 1) : e[i] > e[i + 1]

\* C11: with a solution callback registered, the calls made so far in a search are,
\* in order, exactly one per strictly improving completion in first-improvement mode
\* (so the max values passed are strictly decreasing), and one per completion at
\* least as good as the current best in enumerate-all mode; each call passes n, the
\* completion's largest element and the completed set. Without a registered
\* callback nothing is called.
C11_CallbackOrdering ==
    LET calls == solver.callback_calls
        passed == [i \in 1..Len(calls) |-> calls[i].max_value]
    IN /\ ~solver.solution_callback => calls = <<>>
       /\ (solver.solution_callback /\ pc \in {"backtrack", "fill", "done"})
            => /\ IF solver.config.find_all_optimal
                  THEN passed = MaxesOf(SelectSeq(completions, AtLeastAsGood))
                  ELSE /\ passed = MaxesOf(SelectSeq(completions, Improving))
                       /\ StrictlyDecreasing(passed)
               /\ \A i \in 1..Len(calls) :
                     /\ calls[i].n = solver.config.n
                     /\ Len(calls[i].set) = solver.config.n
                     /\ SetMax(Range(calls[i].set)) = calls[i].max_value

\* C11 witness: a first-improvement search for N = 4 with a registered callback that
\* was called for the first completion (largest element 8) and again for a better one.
C11_Witness ==
    /\ solver.solution_callback /\ ~solver.config.find_all_optimal
    /\ solver.config.n = 4
    /\ Len(solver.callback_calls) = 2
    /\ solver.callback_calls[1].max_value = 8
    /\ solver.callback_calls[2].max_value < 8
    /\ Len(completions) = 2

\* the run was started with the default bound 2^(n-1) + 1
DefaultBound == solver.config.initial_bound = 2 ^ (solver.config.n - 1) + 1

\* C12: a run with N = 1 never calls backtrack (no activation, no node counted, no
\* manager call, no completion) and returns set {1}, max_value 1, status OPTIMAL
\* and nodes_explored = 0.
C12_ScenarioN1 ==
    solver.config.n = 1
        => /\ stack = <<>>
           /\ solver.stats.nodes_explored = 0
           /\ op = NoOp
           /\ completions = <<>>
           /\ Finished => result = [n |-> 1, max_value |-> 1, solution_set |-> <<1>>,
                                    status |-> "OPTIMAL", nodes_explored |-> 0]

\* C12 witness: a finished run for N = 1 with the default bound.
C12_Witness ==
    /\ Finished /\ solver.config.n = 1 /\ DefaultBound
    /\ result.status = "OPTIMAL" /\ result.solution_set = <<1>>

\* C13: a run with the default bound that ends with the stop flag unset returns
\* {1, 2} with max_value 2 for N = 2 and {1, 2, 4} with max_value 4 for N = 3,
\* both with status OPTIMAL.
C13_ScenarioN2N3 ==
    (Finished /\ ~stop_flag /\ DefaultBound)
        => /\ solver.config.n = 2
                => /\ result.solution_set = <<1, 2>>
                   /\ result.max_value = 2
                   /\ result.status = "OPTIMAL"
           /\ solver.config.n = 3
                => /\ result.solution_set = <<1, 2, 4>>
                   /\ result.max_value = 4
                   /\ result.status = "OPTIMAL"

\* C13 witness: a complete search (early exit off) for N = 3 ended with {1, 2, 4}.
C13_Witness ==
    /\ Finished /\ ~stop_flag /\ DefaultBound
    /\ solver.config.n = 3 /\ ~solver.config.first_only
    /\ result.solution_set = <<1, 2, 4>>

\* C14 as stated: a run for N = 4 with the default bound that ends with the stop
\* flag unset returns {1, 2, 4, 8} with max_value 8.
C14_ScenarioN4_AsStated ==
    (Finished /\ ~stop_flag /\ DefaultBound /\ solver.config.n = 4)
        => /\ result.solution_set = <<1, 2, 4, 8>>
           /\ result.max_value = 8

\* C14 amended: a run for N = 4 with the default bound (9) that ends with the stop
\* flag unset returns status OPTIMAL with {3, 5, 6, 7} and max_value 7; {1, 2, 4, 8}
\* is the first completion the search reaches, and the result only with early exit.
C14_ScenarioN4 ==
    (Finished /\ ~stop_flag /\ DefaultBound /\ solver.config.n = 4)
        => /\ result.status = "OPTIMAL"
           /\ completions[1].max = 8
           /\ IF solver.config.first_only
              THEN result.solution_set = <<1, 2, 4, 8>> /\ result.max_value = 8
              ELSE result.solution_set = <<3, 5, 6, 7>> /\ result.max_value = 7

\* C14 witness: a complete search for N = 4 with the default bound returned {3,5,6,7}.
C14_Witness ==
    /\ Finished /\ ~stop_flag /\ DefaultBound
    /\ solver.config.n = 4 /\ ~solver.config.first_only
    /\ result.solution_set = <<3, 5, 6, 7>>

\* C15: a complete run (early exit off) for N = 5 with the default bound (17) that
\* ends with the stop flag unset returns status OPTIMAL and max_value 13 with a set
\* of 5 elements with distinct subset sums whose largest element is 13.
C15_ScenarioN5 ==
    (/\ Finished /\ ~stop_flag /\ DefaultBound
     /\ solver.config.n = 5 /\ ~solver.config.first_only)
        => /\ result.status = "OPTIMAL"
           /\ result.max_value = 13
           /\ Len(result.solution_set) = 5
           /\ StrictlyIncreasing(result.solution_set)
           /\ AllPositive(result.solution_set)
           /\ DistinctSubsetSums(result.solution_set)
           /\ SetMax(Range(result.solution_set)) = 13

\* C15 witness: a complete search for N = 5 that improved on its first completion
\* (largest element 16) and returned max_value 13.
C15_Witness ==
    /\ Finished /\ ~stop_flag /\ DefaultBound
    /\ solver.config.n = 5 /\ ~solver.config.first_only
    /\ completions[1].max = 16
    /\ result.max_value = 13

StopAccounting ==
    /\ Len(manager.elements) + since_stop.pops = since_stop.held + since_stop.pushed
    /\ pc \in {"fill", "done"}
         => /\ manager.elements = <<>>
            /\ since_stop.pops = since_stop.held + since_stop.pushed

\* C19 as stated (its safety part): once the stop flag is set the search counts no
\* further node, starts at most one further try_push, and has made exactly one pop
\* for each element still pushed when it returns.
C19_BoundedCancellation_AsStated ==
    stop_flag
        => /\ since_stop.nodes = 0
           /\ since_stop.pushes <= 1
           /\ StopAccounting

\* the search has a next step: one of the steps other than try_push is enabled, or
\* the activation on top is about to call try_push (which returns true or false)
SearchCanStep ==
    \/ ENABLED (\/ SolveSearch
                \/ BtStopAtEntry
                \/ BtEntryPass
                \/ BtBaseCase
                \/ BtEnter
                \/ BtStopInLoop
                \/ BtLoopPass
                \/ BtBreak
                \/ BtAfterCall
                \/ FillResult)
    \/ /\ pc = "backtrack" /\ Top.pc = "try"
       /\ ~LoopBreak(solver, Top.depth, Top.candidate)
       /\ subset_sum_manager_add_element(manager, Top.candidate).ok \in BOOLEAN

\* an upper bound on the steps a started search still takes once the flag is set:
\* at most 4 for the activation on top, 2 (pop, stop check) for each activation
\* below it, and 1 to fill the result
StepsToReturn ==
    IF pc = "done" THEN 0
    ELSE IF pc = "fill" THEN 1
    ELSE IF pc \in {"created", "started"} THEN 4
    ELSE 1 + 2 * (Len(stack) - 1)
           + (IF Top.pc \in {"entry", "loop"} THEN 1
              ELSE IF Top.pc \in {"count", "called"} THEN 2
              ELSE 4)

\* C19 amended: once the stop flag is set the search counts at most one further
\* node or starts at most one further try_push (never both), makes exactly one pop
\* for each element that was pushed when the flag was set or was pushed by that one
\* try_push, and then returns: until it has returned it always has a next step, and
\* every step brings it closer to the return, which is at most 2 steps per pending
\* activation plus 4 away.
C19_BoundedCancellation ==
    /\ [](stop_flag
            => /\ since_stop.nodes + since_stop.pushes <= 1
               /\ since_stop.pushed <= since_stop.pushes
               /\ StopAccounting
               /\ pc \in {"started", "backtrack", "fill"} => SearchCanStep)
    /\ [][(stop_flag /\ pc \in {"started", "backtrack", "fill"})
            => /\ StepsToReturn' < StepsToReturn
               /\ StepsToReturn <= 2 * Len(stack) + 4]_vars

\* C19 witness: the flag was set between the top-of-level check and the node count
\* of an activation at least two levels deep; the node was still counted and the
\* search has returned after popping every element.
C19_Witness ==
    /\ stop_flag /\ Finished
    /\ since_stop.nodes = 1
    /\ since_stop.held >= 2
    /\ since_stop.pops = since_stop.held

\* C20: no step of backtrack_solver_solve, backtrack_solver_solve_all or backtrack
\* writes the stop flag: a step that changes the flag changes nothing of the search
\* (solver, manager, activations, position, result), and the flag is never cleared.
C20_StopFlagReadOnly ==
    [][stop_flag' # stop_flag
         => /\ UNCHANGED <<manager, solver, stack, pc, result>>
            /\ stop_flag']_vars

\* C20 witness: a search that counted nodes, was stopped by the caller while it was
\* holding elements, and returned with the flag still set.
C20_Witness ==
    /\ Finished /\ stop_flag /\ aborted
    /\ since_stop.held >= 1
    /\ solver.stats.nodes_explored >= 2

\* C28: at every step of a run E is strictly increasing and holds at most N
\* elements, and in every activation of backtrack the candidates handed to try_push
\* so far are in strictly increasing order, the first of them being min_next.
C28_ElementOrdering ==
    /\ StrictlyIncreasing(manager.elements)
    /\ Len(manager.elements) <= solver.config.n
    /\ \A i \in 1..Len(stack) :
           /\ StrictlyIncreasing(stack[i].tried)
           /\ stack[i].tried # <<>> => stack[i].tried[1] = stack[i].min_next

\* C28 witness: three levels are active with E = <<2, 3>>; the top level was entered
\* after 1 and 2 had been tried at depth 0, and the level below it has tried
\* several candidates.
C28_Witness ==
    /\ pc = "backtrack"
    /\ Len(stack) = 3
    /\ manager.elements = <<2, 3>>
    /\ Len(stack[1].tried) = 2
    /\ Len(stack[3].tried) >= 2

\* C29 as stated: every element sequence the search explores begins with 1, and so
\* does every set it records (best_solution, the sets of all_optimal_solutions) or
\* returns.
C29_FirstCoordinate_AsStated ==
    /\ manager.elements # <<>> => manager.elements[1] = 1
    /\ solver.has_solution => solver.best_solution[1] = 1
    /\ \A i \in 1..Len(solver.all_optimal_solutions) :
           solver.all_optimal_solutions[i][1] = 1
    /\ (pc = "done" /\ result.status = "OPTIMAL") => result.solution_set[1] = 1

\* C29 amended: the search starts level 0 from min_next = 1 and the first element
\* of every sequence it explores is the candidate of the level-0 activation, which
\* is at least 1 (1 first, then 2, 3, ...); every set it records or returns has a
\* first element of at least 1.
C29_FirstCoordinate ==
    /\ (pc = "backtrack" /\ Len(stack) >= 1) =>
           /\ stack[1].depth = 0
           /\ stack[1].min_next = 1
           /\ stack[1].candidate >= 1
           /\ manager.elements # <<>> => manager.elements[1] = stack[1].candidate
    /\ manager.elements # <<>> => manager.elements[1] >= 1
    /\ solver.has_solution => solver.best_solution[1] >= 1
    /\ \A i \in 1..Len(solver.all_optimal_solutions) :
           solver.all_optimal_solutions[i][1] >= 1
    /\ (pc = "done" /\ result.status = "OPTIMAL") => result.solution_set[1] >= 1

\* C29 witness: the search for N = 4 is below the level-0 candidate 3, with E
\* beginning with 3, and has recorded the set {3, 5, 6, 7}.
C29_Witness ==
    /\ pc = "backtrack"
    /\ stack[1].candidate = 3
    /\ Len(manager.elements) >= 2
    /\ manager.elements[1] = 3
    /\ solver.has_solution
    /\ solver.best_solution = <<3, 5, 6, 7>>

\* C30: at every moment of an enumerate-all run the sets in all_optimal_solutions
\* are pairwise distinct, each holds N strictly increasing positive elements with
\* distinct subset sums, and each has maximum equal to the current best_max.
C30_OptimalListConsistent ==
    LET opt == solver.all_optimal_solutions
    IN /\ \A i \in 1..Len(opt) : \A j \in 1..Len(opt) : i # j => opt[i] # opt[j]
       /\ \A i \in 1..Len(opt) :
              /\ Len(opt[i]) = solver.config.n
              /\ StrictlyIncreasing(opt[i])
              /\ AllPositive(opt[i])
              /\ DistinctSubsetSums(opt[i])
              /\ SetMax(Range(opt[i])) = solver.best_max

\* C30 witness: an enumerate-all run for N = 4 holds the one set {3, 5, 6, 7} after
\* a strict improvement cleared the list of an earlier, worse completion.
C30_Witness ==
    /\ solver.config.find_all_optimal
    /\ solver.config.n = 4
    /\ Len(completions) >= 2
    /\ solver.all_optimal_solutions = <<<<3, 5, 6, 7>>>>
    /\ solver.best_max = 7

\* the completions of the partial set e to n elements that continue with a value
\* of at least c and stay below the bound b: strictly increasing, distinct subset
\* sums
CompletionsFrom(e, c, n, b) ==
    {T \in SUBSET (c..(b - 1)) :
        /\ Cardinality(T) = n - Len(e)
        /\ T # {}
        /\ StrictlyIncreasing(e \o SetToSeq(T))
        /\ DistinctSubsetSums(e \o SetToSeq(T))}

\* C26: whenever prune P1 is about to return from an activation, or prune P2 or the
\* test candidate >= best_max (candidate >= initial_bound before the first solution)
\* is about to break its candidate loop, no completion of the current partial set E
\* that continues with one of the cut-off candidates has a maximum strictly smaller
\* than best_max.
C26_PruningSound ==
    /\ (/\ pc = "backtrack" /\ Top.pc = "count"
        /\ Top.depth # solver.config.n
        /\ PruneP1(solver, Top.depth, Top.min_next))
           => CompletionsFrom(manager.elements, Top.min_next, solver.config.n,
                              solver.best_max) = {}
    /\ (/\ pc = "backtrack" /\ Top.pc = "try"
        /\ LoopBreak(solver, Top.depth, Top.candidate))
           => CompletionsFrom(manager.elements, Top.candidate, solver.config.n,
                              solver.best_max) = {}

\* C26 witness: with a solution recorded, prune P2 is about to break the loop of a
\* level below the top at a candidate that is still smaller than best_max.
C26_Witness ==
    /\ pc = "backtrack" /\ Top.pc = "try"
    /\ solver.has_solution
    /\ Top.depth >= 1
    /\ Top.candidate < solver.best_max
    /\ Top.candidate + Remaining(solver, Top.depth) >= solver.best_max
    /\ LoopBreak(solver, Top.depth, Top.candidate)

\* C31: with first_only set, once has_solution is true the search hands no further
\* candidate to try_push and starts no new activation; every activation left is
\* waiting for its recursive call to return, each step that ends one pops exactly
\* one element, and the run ends with E empty and (for N >= 2) exactly one
\* completion recorded.
C31_EarlyExit ==
    /\ []((solver.config.first_only /\ solver.has_solution) =>
            /\ pc = "backtrack" =>
                   /\ \A i \in 1..Len(stack) : stack[i].pc = "called"
                   /\ Len(manager.elements) = Len(stack)
            /\ pc \in {"fill", "done"} => manager.elements = <<>>
            /\ solver.config.n >= 2 =>
                   /\ Len(completions) = 1
                   /\ solver.stats.solutions_found = 1)
    /\ [][(solver.config.first_only /\ solver.has_solution /\ pc = "backtrack") =>
            /\ Len(stack') <= Len(stack)
            /\ \A i \in 1..Len(stack') : stack'[i].tried = stack[i].tried
            /\ Len(stack') < Len(stack) =>
                   /\ Len(stack') = Len(stack) - 1
                   /\ Len(manager'.elements) = Len(manager.elements) - 1]_vars

\* C31 witness: a first_only search for N = 4 has recorded its first completion and
\* has unwound two of its four levels, with the stop flag unset.
C31_Witness ==
    /\ solver.config.first_only
    /\ solver.config.n = 4
    /\ solver.has_solution
    /\ ~stop_flag
    /\ pc = "backtrack"
    /\ Len(stack) = 2
    /\ Len(manager.elements) = 2
    /\ op.name = "pop"

C33_NoLeakOnTeardown ==
    pc = "destroyed" => solver.heap = {}

\* the position of a run, as a word that is compared from the left: the stage
\* of backtrack_solver_solve, whether the solution callback is registered, and
\* for each level of the recursion the candidate and the position of its
\* activation (0 before the level is called, DigitMax once it has returned)
DigitMax == 5 * (Pow2(MaxN) + MaxB + 2)

PcStage ==
    CASE pc = "created" -> 0 [] pc = "started" -> 1 [] pc = "backtrack" -> 2
      [] pc = "fill" -> 3 [] pc = "done" -> 4 [] OTHER -> 5

FrameStage(f) ==
    CASE f.pc = "entry" -> 0 [] f.pc = "count" -> 1 [] f.pc = "loop" -> 2
      [] f.pc = "try" -> 3 [] OTHER -> 4

RunPosition ==
    <<PcStage, IF solver.solution_callback THEN 1 ELSE 0>> \o
    [i \in 1..(MaxN + 1) |->
        IF i <= Len(stack) THEN 1 + 5 * stack[i].candidate + FrameStage(stack[i])
        ELSE IF i = Len(stack) + 1 /\ i >= 2 /\ stack[i - 1].pc = "called"
             THEN DigitMax
             ELSE 0]

\* a comes before b, comparing from the left
RECURSIVE LexLess(_, _)
LexLess(a, b) ==
    /\ a # <<>>
    /\ \/ Head(a) < Head(b)
       \/ Head(a) = Head(b) /\ LexLess(Tail(a), Tail(b))

PowersOfTwo(n) == [i \in 1..n |-> Pow2(i - 1)]

C37_EnumerateAllReturnsOwnBest ==
    (pc = "done" /\ solver.config.find_all_optimal /\ result.status = "OPTIMAL")
        => /\ solver.all_optimal_solutions # <<>>
           /\ \E i \in 1..Len(solver.all_optimal_solutions) :
                  solver.all_optimal_solutions[i] = result.solution_set

----------------------------------------------------------------------------
(* Claims about the worker pool and the persistence layer (SpecPool) *)

\* the worker threads that have been created and have not returned yet
Running == {t \in 1..Len(threads) : threads[t].pc \notin {"exited", "joined"}}

InAccess ==
    {WorkerThread(t) : t \in {u \in 1..Len(threads) :
        threads[u].pc \in {"has_optimal", "get_bound_in", "save_result_in",
                           "save_sets_in"}}}
    \cup (IF pool.pc \in {"last_n_in", "destroy_in"} THEN {MainThread} ELSE {})

\* the thread that holds the manager mutex can take the step that ends its access
HolderCanLeave ==
    \/ db.mutex = Nobody
    \/ db.mutex = MainThread /\ ENABLED (M_LastN \/ M_Destroy)
    \/ \E t \in 1..Len(threads) :
          /\ db.mutex = WorkerThread(t)
          /\ ENABLED (W_HasOptimal(t) \/ W_GetBound(t) \/ W_SaveResult(t)
                         \/ W_SaveSets(t))

\* C22: at most one thread is inside a database access of the manager at a time;
\* the mutex is held exactly by the thread inside an access, so every operation
\* has taken it before touching the database and has released it on whichever path
\* it returned; the holder can always end its access, and the step that ends an
\* access frees the mutex, so no thread waits for it forever; the manager is
\* destroyed only when every worker thread has been joined.
C22_WritesSerialised ==
    /\ [](/\ Cardinality(InAccess) <= 1
          /\ db.mutex = Nobody <=> InAccess = {}
          /\ db.mutex # Nobody => InAccess = {db.mutex}
          /\ HolderCanLeave
          /\ pool.pc \in {"destroy_in", "finished"} =>
                 \A t \in 1..Len(threads) : threads[t].pc = "joined")
    /\ [][db.mutex # Nobody => db'.mutex \in {db.mutex, Nobody}]_vars

\* C22 witness: one worker is inside db_manager_get_best_bound while another, which
\* holds g_result_mutex, waits for the manager mutex in db_manager_save_result.
C22_Witness ==
    \E t \in 1..Len(threads) : \E u \in 1..Len(threads) :
        /\ threads[t].pc = "get_bound_in"
        /\ db.mutex = WorkerThread(t)
        /\ threads[u].pc = "save_result"
        /\ db.result_mutex = WorkerThread(u)

\* the worker threads whose search has returned and that are past the save block
SearchReturned ==
    {t \in 1..Len(threads) :
        threads[t].searched /\ threads[t].pc \in {"complete", "return", "exited"}}

\* C23: with a database manager in place, for every search a worker has run to its
\* return, db_manager_save_result has been called exactly once with its result by
\* the time the worker is past the save block, and in enumerate-all mode
\* db_manager_save_optimal_sets exactly once.
C23_SaveExactlyOnce ==
    db.open =>
        \A t \in SearchReturned :
            /\ threads[t].saves = 1
            /\ pool.find_all => threads[t].set_saves = 1

\* C24: the bound a worker's search starts from is the stored best bound when one
\* exists and is smaller than the default bound 2^(n-1) + 1, and the default bound
\* otherwise.
C24_BoundSeeding ==
    \A t \in 1..Len(threads) :
        threads[t].searched =>
            threads[t].used =
                IF /\ threads[t].seeded.found
                   /\ threads[t].seeded.bound < compute_initial_bound(threads[t].n)
                THEN threads[t].seeded.bound
                ELSE compute_initial_bound(threads[t].n)

----------------------------------------------------------------------------
(* Claims about the callbacks and the progress clock (SpecCb) *)

\* the node counts the cadence names: the multiples of 1024 up to 100 000 and
\* the multiples of 65 536 after that
Cadence(c) ==
    \/ c <= 100000 /\ c % 1024 = 0
    \/ c > 100000 /\ c % 65536 = 0

\* this step counts a node of the observed run
NodeCounted ==
    /\ pc = "counting"
    /\ solver'.stats.nodes_explored = solver.stats.nodes_explored + 1

\* this step calls the progress callback
ProgressCalled == Len(solver'.progress_calls) = Len(solver.progress_calls) + 1

\* C32 as stated: with a progress callback registered, the callback is invoked
\* at a node if and only if the node count is in the cadence
C32_ProgressCadence_AsStated ==
    [][(NodeCounted /\ solver.progress_callback) =>
           (ProgressCalled <=> Cadence(solver'.stats.nodes_explored))]_vars

\* C32: the progress callback is invoked only at nodes whose count is in the
\* cadence (a multiple of 1024 up to 100 000, of 65 536 after that), and at
\* such a node exactly when a callback is registered and at least
\* log_interval_sec seconds have passed since the last progress log; the call
\* reports the count of that node
C32_ProgressCadence ==
    [][NodeCounted =>
           /\ ProgressCalled <=>
                  /\ Cadence(solver'.stats.nodes_explored)
                  /\ solver.progress_callback
                  /\ solver'.time_read - solver.stats.last_log_time
                         >= solver.config.log_interval_sec
           /\ IF ProgressCalled
              THEN /\ SubSeq(solver'.progress_calls, 1, Len(solver.progress_calls))
                          = solver.progress_calls
                   /\ solver'.progress_calls[Len(solver'.progress_calls)].nodes
                          = solver'.stats.nodes_explored
              ELSE solver'.progress_calls = solver.progress_calls]_vars

\* a run with a positive log interval whose progress callback was called at
\* node 131 072, and only there
C32_Witness ==
    /\ pc = "counting"
    /\ solver.config.log_interval_sec = MaxElapsed
    /\ Len(solver.progress_calls) = 1
    /\ solver.progress_calls[1].nodes = 131072
    /\ solver.stats.nodes_explored > 131072

\* C38: the registrations are independent: every call of the solution callback
\* passes the user_data the solution callback was registered with, and every
\* call of the progress callback passes the user_data the progress callback
\* was registered with, whatever the order of the two registrations
C38_IndependentRegistrations ==
    /\ \A i \in 1..Len(solver.callback_calls) :
           solver.callback_calls[i].user_data = solver.registered.solution
    /\ \A i \in 1..Len(solver.progress_calls) :
           solver.progress_calls[i].user_data = solver.registered.progress

----------------------------------------------------------------------------
(* Claims about signal delivery (SpecSig) *)

\* C39: a signal delivered to any thread at any point, also while that thread
\* holds the logger mutex inside log_message, finds a handler that runs to its
\* end and sets g_stop_flag: no handler is ever left waiting for the logger
\* mutex that its own thread holds
C39_SignalSetsStopFlag ==
    \A t \in 1..Len(sig) : \A i \in 1..Len(sig[t].handlers) :
        sig[t].handlers[i].pc # "deadlock"

====
